---- MODULE Spec2Model ----
(***************************************************************************)
(* Recommendation and price-estimation orchestration of the real-estate    *)
(* platform: the per-interaction candidate filter, the round-robin merge   *)
(* and the fallbacks of RecommendationService.recommend, the request       *)
(* handler getRecommendations, and the two retrying service clients        *)
(* (RecommendationService.callAiService and fetchWithRetry).               *)
(*                                                                         *)
(* Listing ids are opaque tokens, written as naturals.  Prices are whole   *)
(* currency units.  A similarity score s in [0,1] is the integer 10000*s,  *)
(* so 0.85 is 8500 and 0.8499 is 8499.  Sleeps are milliseconds.           *)
(***************************************************************************)
EXTENDS Integers, Sequences, FiniteSets, TLC

VARIABLES
    listings,            \* catalog snapshot read by the request (Listing.find)
    favorites,           \* parsed ?favorites= ids, in order
    recentlyViewed,      \* parsed ?recentlyViewed= ids, in order
    lastSearch,          \* TRUE iff a lastSearch object was sent
    topN,                \* requested number of results
    envRetries,          \* process.env.AI_REQUEST_RETRIES; 0 = unset or "0"
    debugMode,           \* ?debug=1, ?debug=true or RECOMMENDATION_DEBUG=1
    client,              \* which retrying client runs: "rec" or "price"
    pc,                  \* where the execution is suspended
    ctx,                 \* who awaits the current service call
    srcIdx,              \* position in favorites \o recentlyViewed being queried
    collectedRecsGroups, \* recommend: surviving candidate lists, one per interaction
    groupSources,        \* the interaction id each collected list came from
    rawRecs,             \* the service response the filter was last applied to
    callLog,             \* the service calls recommend has started, in order
    fallbackRaw,         \* the response the fallback call received
    recommendResult,     \* what recommend returned (a list of recs)
    path,                \* which branch produced the outcome
    response,            \* recommendations sent to the user (listing ids)
    attempt,             \* retry loop counter of the running client
    lastErr,             \* callAiService: lastErr
    outcomes,            \* per HTTP attempt of the current call, what happened
    sleeps,              \* backoff sleeps of the current call, in order
    thrown,              \* the error the client call failed with
    callReturn,          \* what the client call returned
    queryLog,            \* recommend: the interactions queried so far, in order
    payload,             \* doFetch: the parsed JSON body of a 2xx response
    decoded,             \* doFetch: what decoding the body came to
    op,                  \* price side: the request being handled
    body,                \* predictPrice: the request body
    now,                 \* the clock, in quarter days
    status,              \* the model status last obtained by checkModelStatus
                         \* (concurrent runs: the status the service holds)
    opLog,               \* the service methods invoked, in order
    sent,                \* the fetchWithRetry calls made, with what they sent
    httpResponse,        \* what the request handler answered
    checkResult,         \* what checkAndRetainIfNeeded resolved with
    runs,                \* earlier handlings of the same predictPrice request
    values,              \* normalize: the array it is called with
    search,              \* recommend: the lastSearch object
    computed,            \* what the function under study returned
    reqs,                \* concurrent price-side requests, one record each
    dbLog,               \* price side: the collection reads of the handler, and
                         \* the writes of other requests landing between them
    attemptsSent         \* recommend: HTTP attempts made so far in the request

vars == <<listings, favorites, recentlyViewed, lastSearch, topN, envRetries,
          debugMode, client, pc, ctx, srcIdx, collectedRecsGroups, groupSources, rawRecs,
          callLog, fallbackRaw, recommendResult, path, response, attempt,
          lastErr, outcomes, sleeps, thrown, callReturn, queryLog,
          payload, decoded, op, body, now, status, opLog, sent,
          httpResponse, checkResult, runs, values, search, computed, reqs,
          dbLog, attemptsSent>>

inputVars == <<listings, favorites, recentlyViewed, lastSearch, topN,
               envRetries, debugMode, client>>

\* the state of the price-estimation side, untouched by the recommendation side
priceVars == <<payload, decoded, op, body, now, status, opLog, sent,
              httpResponse, checkResult, runs, values, search, computed, reqs,
              dbLog>>

(***************************************************************************)
(* Bounds of the model.                                                    *)
(***************************************************************************)
MaxFav == 1          \* request flow: favorites carries at most this many ids
MaxViewed == 1       \* request flow: recentlyViewed carries at most this many ids
MaxRecs == 1         \* request flow: entries in one service response
MaxTopN == 2         \* request flow: topN ranges over 1..MaxTopN
MaxFilterRecs == 2   \* filter runs: entries in the service response
MaxGroups == 3       \* merge runs: number of collected lists
MaxGroupLen == 3     \* merge runs: length of one collected list
MaxMergeId == 6      \* merge runs: candidate ids 1..MaxMergeId
MaxMergeTopN == 6    \* merge runs: topN ranges over 1..MaxMergeTopN
MaxEnvRetries == 3   \* retry runs: AI_REQUEST_RETRIES set to 1..MaxEnvRetries, or unset
MaxDecodeLen == 2    \* decode runs: entries in the recommendations array
MaxRepeats == 1      \* price runs: times a predictPrice request is sent again
MaxNormLen == 3      \* normalize runs: length of the array
MaxNormValue == 3    \* normalize runs: the values are -1..MaxNormValue
MaxBatch == 2        \* feature runs: listings in the batch
MaxFuseGroups == 2   \* fuse runs: number of collected lists
MaxFuseLen == 2      \* fuse runs: length of one collected list
MaxFuseTopN == 3     \* fuse runs: topN ranges over 1..MaxFuseTopN
MaxRequests == 2     \* concurrent runs: price-side requests being handled
MaxWrites == 1       \* price runs: writes of other requests landing meanwhile

(***************************************************************************)
(* Small helpers.                                                          *)
(***************************************************************************)
Min(a, b) == IF a < b THEN a ELSE b
Max(a, b) == IF a > b THEN a ELSE b

RECURSIVE Pow2(_)
Pow2(n) == IF n = 0 THEN 1 ELSE 2 * Pow2(n - 1)

Range(s) == {s[i] : i \in 1..Len(s)}

\* Array.prototype.slice(0, n) for n >= 0
Slice0(s, n) == SubSeq(s, 1, Min(n, Len(s)))

SeqsUpTo(S, n) == UNION {[1..k -> S] : k \in 0..n}

(***************************************************************************)
(* The catalog.  A listing is [id, regularPrice, discountPrice, createdAt];*)
(* a missing price is 0, as `regularPrice || 0` makes it.                  *)
(***************************************************************************)
Listing(i, rp, dp, ts) ==
    [id |-> i, regularPrice |-> rp, discountPrice |-> dp, createdAt |-> ts]

Catalog ==
    << Listing(1, 1000, 0, 30),
       Listing(2, 400, 0, 50),
       Listing(3, 500, 0, 10),
       Listing(4, 2500, 2000, 60),
       Listing(5, 2500, 0, 20),
       Listing(6, 0, 0, 40) >>

UnknownId == 9       \* an id no listing of the catalog has

CatalogIds == {Catalog[i].id : i \in 1..Len(Catalog)}

\* score: null, as doFetch produces for a bare id or a non-numeric score
NullScore == -1

ScoreValues == {NullScore, 8499, 8500}

Rec(i, s) == [id |-> i, score |-> s]

ServiceRecs == {Rec(i, s) : i \in CatalogIds \cup {UnknownId}, s \in ScoreValues}

(***************************************************************************)
(* recommend: lookups and prices.                                          *)
(***************************************************************************)
\* listings.find(l => String(l._id) === id): index of the first match, 0 if none
FindListing(ls, id) ==
    IF \E i \in 1..Len(ls) : ls[i].id = id
    THEN CHOOSE i \in 1..Len(ls) :
            /\ ls[i].id = id
            /\ \A j \in 1..(i - 1) : ls[j].id # id
    ELSE 0

\* idToFeature.get(String(srcId)) is defined
HasFeature(ls, id) == FindListing(ls, id) # 0

\* discountPrice > 0 ? discountPrice : regularPrice || 0
EffectivePrice(l) ==
    IF l.discountPrice > 0 THEN l.discountPrice ELSE l.regularPrice

PriceOutsideUpperOnly(intPrice, recPrice) ==
       /\ intPrice > 0
       /\ recPrice > 0
       /\ recPrice > 2 * intPrice

\* Hard price constraint: ratio = recPrice / intPrice; ratio < 0.5 || ratio > 2.0,
\* tested only when both prices are positive
PriceOutside(intPrice, recPrice) ==
       /\ intPrice > 0
       /\ recPrice > 0
       /\ (2 * recPrice < intPrice \/ recPrice > 2 * intPrice)

ScoreBelowLoose(score) ==
    IF score = NullScore THEN TRUE ELSE score < 8000

ScoreBelowNullPasses(score) ==
    IF score = NullScore THEN FALSE ELSE score < 8500

\* rec.score < 0.85, where null converts to 0
ScoreBelow(score) ==
    IF score = NullScore THEN TRUE ELSE score < 8500

UserInteractionSetFavOnly(fav, viewed) == Range(fav)

\* new Set([...favSet, ...viewedSet])
UserInteractionSet(fav, viewed) == Range(fav) \cup Range(viewed)

KeepRecKeepsKnown(ls, fav, viewed, srcId, rec) ==
    /\ FindListing(ls, rec.id) # 0
    /\ \/ FindListing(ls, srcId) = 0
       \/ ~PriceOutside(EffectivePrice(ls[FindListing(ls, srcId)]),
                        EffectivePrice(ls[FindListing(ls, rec.id)]))
    /\ ~ScoreBelow(rec.score)

\* The body of `for (const rec of recs)`: TRUE iff rec is pushed to validRecs
KeepRec(ls, fav, viewed, srcId, rec) ==
    /\ FindListing(ls, rec.id) # 0
    /\ \/ FindListing(ls, srcId) = 0
       \/ ~PriceOutside(EffectivePrice(ls[FindListing(ls, srcId)]),
                        EffectivePrice(ls[FindListing(ls, rec.id)]))
    /\ ~ScoreBelow(rec.score)
    /\ rec.id \notin UserInteractionSet(fav, viewed)

\* validRecs of one interaction, in the order the service returned them
FilterRecs(ls, fav, viewed, srcId, recs) ==
    LET Keep(r) == KeepRec(ls, fav, viewed, srcId, r)
    IN  SelectSeq(recs, Keep)

(***************************************************************************)
(* Round-robin merge (step 3 of recommend).  Each group has an iterator    *)
(* (its next position); a round visits the live iterators in order, each   *)
(* one advancing to its next rec whose id is not in seenIds.               *)
(***************************************************************************)
SkipSeenNever(group, p, seen) == p

RECURSIVE SkipSeen(_, _, _)
SkipSeen(group, p, seen) ==
    IF p > Len(group) THEN p
    ELSE IF group[p].id \notin seen THEN p
    ELSE SkipSeen(group, p + 1, seen)

\* One pass of `for (const gen of activeGenerators)` from the k-th live
\* iterator on.  The state after an iterator's turn is bound as a value (nx)
\* before the pass goes on, so that it is computed once.
RECURSIVE MergeRound(_, _, _, _)
MergeRound(groups, active, k, st) ==
    IF k > Len(active) THEN st
    ELSE LET gi == active[k]
             q  == SkipSeen(groups[gi], st.pos[gi], st.seen)
         IN  IF q <= Len(groups[gi])
             THEN CHOOSE res \in
                     {MergeRound(groups, active, k + 1, nx) :
                        nx \in {[pos  |-> [st.pos EXCEPT ![gi] = q + 1],
                                 seen |-> st.seen \cup {groups[gi][q].id},
                                 out  |-> Append(st.out, groups[gi][q]),
                                 next |-> Append(st.next, gi)]}} : TRUE
             ELSE CHOOSE res \in
                     {MergeRound(groups, active, k + 1, nx) :
                        nx \in {[st EXCEPT !.pos = [st.pos EXCEPT ![gi] = q]]}} : TRUE

\* while (activeGenerators.length > 0): one round (r) per iteration
RECURSIVE MergeLoop(_, _, _)
MergeLoop(groups, active, st) ==
    IF Len(active) = 0 THEN st.out
    ELSE CHOOSE res \in
            {MergeLoop(groups, r.next, r) :
               r \in {MergeRound(groups, active, 1, [st EXCEPT !.next = <<>>])}} : TRUE

RECURSIVE ConcatGroups(_)
ConcatGroups(groups) ==
    IF Len(groups) = 0 THEN <<>>
    ELSE Head(groups) \o ConcatGroups(Tail(groups))

\* allRecs after the while loop
RoundRobinMerge(groups) ==
    IF Len(groups) = 0 THEN <<>>
    ELSE MergeLoop(groups,
                   [i \in 1..Len(groups) |-> i],
                   [pos  |-> [i \in 1..Len(groups) |-> 1],
                    seen |-> {},
                    out  |-> <<>>,
                    next |-> <<>>])

\* return allRecs.slice(0, topN), taken when allRecs is not empty
FusedResult(groups, n) == Slice0(RoundRobinMerge(groups), n)

(***************************************************************************)
(* Values every run starts from.                                           *)
(***************************************************************************)
NoError == [type |-> "none", cause |-> "none", attempts |-> 0]

LocalsIdle ==
    /\ attempt = 0
    /\ lastErr = "none"
    /\ outcomes = <<>>
    /\ sleeps = <<>>

\* no body has been decoded
NotDecoded == [kind |-> "none", error |-> "none", recs |-> <<>>]

\* a lastSearch object: an absent property is 0 or "", falsy like undefined
NoSearch == [budget |-> 0, city |-> "", areaMin |-> 0, areaMax |-> 0,
             bedrooms |-> 0]

DecodeIdle ==
    /\ payload = [kind |-> "none", items |-> <<>>]
    /\ decoded = NotDecoded

\* no price-side request is being handled
PriceIdle ==
    /\ DecodeIdle
    /\ op = "none"
    /\ body = [areaSqFt |-> [p |-> "absent", n |-> 0, s |-> ""],
               bedrooms |-> [p |-> "absent", n |-> 0, s |-> ""],
               bathrooms |-> [p |-> "absent", n |-> 0, s |-> ""],
               type |-> [p |-> "absent", n |-> 0, s |-> ""],
               createdAt |-> [p |-> "absent", n |-> 0, s |-> ""],
               city |-> [p |-> "absent", n |-> 0, s |-> ""],
               address |-> <<>>]
    /\ now = 0
    /\ status = [source |-> "none", is_trained |-> FALSE, has_count |-> FALSE,
                 training_count |-> 0]
    /\ opLog = <<>>
    /\ sent = <<>>
    /\ httpResponse = [code |-> 0, success |-> FALSE, message |-> <<>>,
                       result |-> [predicted_price |-> 0,
                                   price_range |-> [min |-> 0, max |-> 0]],
                       listing |-> 0, logged |-> <<>>]
    /\ checkResult = [done |-> FALSE, needsRetraining |-> FALSE,
                      retrained |-> FALSE, error |-> <<>>]
    /\ runs = <<>>
    /\ values = <<>>
    /\ search = NoSearch
    /\ computed = <<>>
    /\ reqs = <<>>
    /\ dbLog = <<>>

NothingYet ==
    /\ PriceIdle
    /\ attemptsSent = 0
    /\ srcIdx = 0
    /\ queryLog = <<>>
    /\ collectedRecsGroups = <<>>
    /\ groupSources = <<>>
    /\ rawRecs = <<>>
    /\ callLog = <<>>
    /\ fallbackRaw = <<>>
    /\ recommendResult = <<>>
    /\ path = "none"
    /\ response = <<>>
    /\ thrown = NoError
    /\ callReturn = "none"

(***************************************************************************)
(* Merge runs: step 3 and 4 of recommend applied to collected lists drawn  *)
(* from a bounded set (lists with pairwise-distinct ids): up to MaxGroups  *)
(* lists of 1..MaxGroupLen candidates each, at most MaxMergeId candidates  *)
(* in all, their ids running up or down the cycle 1..MaxMergeId from any   *)
(* start.                                                                  *)
(***************************************************************************)
MergeIds == 1..MaxMergeId

\* n distinct ids: s, s+1, ... or s, s-1, ... around the cycle 1..MaxMergeId
MergeOrders(n) ==
    {[i \in 1..n |-> ((s + i - 2) % MaxMergeId) + 1] : s \in MergeIds}
    \cup {[i \in 1..n |-> ((s - i + MaxMergeId) % MaxMergeId) + 1] : s \in MergeIds}

\* sequences over S without repetition, of length at most n
RECURSIVE InjSeqs(_, _)
InjSeqs(S, n) ==
    IF n = 0 THEN {<<>>}
    ELSE LET prev == InjSeqs(S, n - 1)
         IN  prev \cup UNION {{Append(q, x) : x \in S \ Range(q)} :
                               q \in {r \in prev : Len(r) = n - 1}}

RECURSIVE SumSeq(_)
SumSeq(s) == IF Len(s) = 0 THEN 0 ELSE Head(s) + SumSeq(Tail(s))

\* cut flat into consecutive lists of the lengths lens
RECURSIVE SplitBy(_, _)
SplitBy(flat, lens) ==
    IF Len(lens) = 0 THEN <<>>
    ELSE <<SubSeq(flat, 1, Head(lens))>>
         \o SplitBy(SubSeq(flat, Head(lens) + 1, Len(flat)), Tail(lens))

MergeRec(i) == Rec(i, 8500)

InitMerge ==
    /\ listings = Catalog
    /\ favorites = <<>>
    /\ recentlyViewed = <<>>
    /\ lastSearch = FALSE
    /\ topN \in 1..MaxMergeTopN
    /\ envRetries = 0
    /\ debugMode = FALSE
    /\ client = "rec"
    /\ pc = "collected"
    /\ ctx = "merge"
    /\ LocalsIdle
    /\ PriceIdle
    /\ attemptsSent = 0
    /\ srcIdx = 0
    /\ queryLog = <<>>
    /\ \E lens \in {l \in SeqsUpTo(1..MaxGroupLen, MaxGroups) :
                        SumSeq(l) <= MaxMergeId} :
         \E flat \in MergeOrders(SumSeq(lens)) :
            /\ collectedRecsGroups =
                  SplitBy([i \in 1..Len(flat) |-> MergeRec(flat[i])], lens)
    /\ groupSources = <<>>
    /\ rawRecs = <<>>
    /\ callLog = <<>>
    /\ fallbackRaw = <<>>
    /\ recommendResult = <<>>
    /\ path = "none"
    /\ response = <<>>
    /\ thrown = NoError
    /\ callReturn = "none"

\* Steps 3 and 4 of recommend on the collected lists
MergeCollected ==
    /\ pc = "collected"
    /\ ctx = "merge"
    /\ pc' = "merged"
    /\ recommendResult' = FusedResult(collectedRecsGroups, topN)
    /\ path' = IF Len(RoundRobinMerge(collectedRecsGroups)) > 0
               THEN "fused" ELSE "fallthrough"
    /\ UNCHANGED <<inputVars, priceVars, attemptsSent, ctx, srcIdx, queryLog, collectedRecsGroups, groupSources,
                   rawRecs, callLog, fallbackRaw, response, attempt, lastErr,
                   outcomes, sleeps, thrown, callReturn>>

NextMerge == MergeCollected

SpecMerge == InitMerge /\ [][NextMerge]_vars

\* The interleaving the merge is meant to produce: round r holds the r-th
\* element of every list that has at least r elements, in list order.
RECURSIVE RoundOf(_, _, _)
RoundOf(groups, r, i) ==
    IF i > Len(groups) THEN <<>>
    ELSE (IF Len(groups[i]) >= r THEN <<groups[i][r]>> ELSE <<>>)
         \o RoundOf(groups, r, i + 1)

RECURSIVE RoundsFrom(_, _, _)
RoundsFrom(groups, r, last) ==
    IF r > last THEN <<>>
    ELSE RoundOf(groups, r, 1) \o RoundsFrom(groups, r + 1, last)

RECURSIVE LongestLen(_)
LongestLen(groups) ==
    IF Len(groups) = 0 THEN 0
    ELSE Max(Len(Head(groups)), LongestLen(Tail(groups)))

Interleaving(groups) == RoundsFrom(groups, 1, LongestLen(groups))

IdsOf(recs) == [i \in 1..Len(recs) |-> recs[i].id]

PairwiseDistinctIds(groups) ==
    LET flat == ConcatGroups(groups)
    IN  \A i, j \in 1..Len(flat) : i # j => flat[i].id # flat[j].id

\* C1: for collected lists with pairwise-distinct ids, what recommend returns
\* from the merge is the round-by-round interleaving of the lists (round r
\* takes the r-th element of every list that has one, in collection order),
\* cut to the first topN.
C1_RoundRobinInterleaving ==
    (pc = "merged" /\ PairwiseDistinctIds(collectedRecsGroups))
        => recommendResult = Slice0(Interleaving(collectedRecsGroups), topN)

\* Lists A=[1,2,3], B=[4,5], C=[6] merged with topN 6 gave 1,4,6,2,5,3:
\* C is exhausted after the first round, B after the second, and the lists
\* that survive are taken in the order they were collected.
C1_Witness ==
    /\ pc = "merged"
    /\ Len(collectedRecsGroups) = 3
    /\ IdsOf(collectedRecsGroups[1]) = <<1, 2, 3>>
    /\ IdsOf(collectedRecsGroups[2]) = <<4, 5>>
    /\ IdsOf(collectedRecsGroups[3]) = <<6>>
    /\ topN = 6
    /\ IdsOf(recommendResult) = <<1, 4, 6, 2, 5, 3>>

\* The same lists with topN 4: the merge is cut after 1,4,6,2.
C1_TruncatedWitness ==
    /\ pc = "merged"
    /\ Len(collectedRecsGroups) = 3
    /\ IdsOf(collectedRecsGroups[1]) = <<1, 2, 3>>
    /\ IdsOf(collectedRecsGroups[2]) = <<4, 5>>
    /\ IdsOf(collectedRecsGroups[3]) = <<6>>
    /\ topN = 4
    /\ IdsOf(recommendResult) = <<1, 4, 6, 2>>

\* The shortest list collected first: [6], [5,4], [3,2,1] gave 6,5,3,4,2,1.
C1_ShortFirstWitness ==
    /\ pc = "merged"
    /\ Len(collectedRecsGroups) = 3
    /\ IdsOf(collectedRecsGroups[1]) = <<6>>
    /\ IdsOf(collectedRecsGroups[2]) = <<5, 4>>
    /\ IdsOf(collectedRecsGroups[3]) = <<3, 2, 1>>
    /\ topN = 6
    /\ IdsOf(recommendResult) = <<6, 5, 3, 4, 2, 1>>

DefaultTopN == 5

SourcesViewedFirst(fav, viewed) == viewed \o fav

\* favorites are processed before recentlyViewed
Sources(fav, viewed) == fav \o viewed

\* if (validRecs.length > 0) collectedRecsGroups.push(validRecs)
PushGroup(groups, valid) ==
    IF Len(valid) > 0 THEN Append(groups, valid) ELSE groups

(***************************************************************************)
(* The retrying service clients.                                           *)
(*                                                                         *)
(* What one HTTP attempt can come to:                                      *)
(*   "ok"              2xx with the expected JSON body                     *)
(*   "invalid_payload" 2xx whose JSON lacks the expected keys              *)
(*   "abort"           the timeout fired: AbortError                       *)
(*   "ECONNREFUSED"    network failure, message names ECONNREFUSED         *)
(*   "ENOTFOUND"       network failure, message names ENOTFOUND            *)
(*   "http503"         503, body "Service Unavailable"                     *)
(*   "http404"         404, body "Not Found"                               *)
(*   "http504"         504, body "Gateway Timeout"                         *)
(***************************************************************************)
HttpErrors == {"http503", "http404", "http504"}
NetworkErrors == {"ECONNREFUSED", "ENOTFOUND"}
Failures == {"abort"} \cup NetworkErrors \cup HttpErrors
Outcomes == {"ok", "invalid_payload"} \cup Failures

DefaultRecRetries == 2
DefaultPriceRetries == 5
RecBackoffBase == 100
PriceBackoffBase == 2000
PriceBackoffCap == 10000

\* Number(process.env.AI_REQUEST_RETRIES) || 2
RecRetries(env) == IF env = 0 THEN DefaultRecRetries ELSE env

\* Number(process.env.AI_REQUEST_RETRIES) || 5
PriceRetries(env) == IF env = 0 THEN DefaultPriceRetries ELSE env

\* err.name of what doFetch throws
ErrName(o) == IF o = "abort" THEN "AbortError"
              ELSE IF o \in NetworkErrors THEN "FetchError"
              ELSE "Error"

\* /timeout/i.test(err.message): the message of an HTTP error carries the body text
MessageMentionsTimeout(o) == o = "http504"

\* /ECONNRESET|ECONNREFUSED/.test(err.message)
MessageMentionsConn(o) == o = "ECONNREFUSED"

RecRetriableAbortOnly(o) == ErrName(o) = "AbortError"

\* the condition under which callAiService's catch block retries
RecRetriable(o) ==
    \/ ErrName(o) = "AbortError"
    \/ MessageMentionsTimeout(o)
    \/ MessageMentionsConn(o)

RecLoopContinuesOneMore(att, env) == att <= RecRetries(env) + 1

RecLoopContinuesStrict(att, env) == att < RecRetries(env)

\* while (attempt <= AI_REQUEST_RETRIES)
RecLoopContinues(att, env) == att <= RecRetries(env)

\* const backoff = 100 * Math.pow(2, attempt), attempt already incremented
RecBackoff(att) == RecBackoffBase * Pow2(att)

\* response.ok in fetchWithRetry: the body is not read there
FetchResponseOk(o) == o \in {"ok", "invalid_payload"}

\* if (attempt === retries - 1) throw
FetchIsLastAttempt(att, retries) == att = retries - 1

\* Math.min(Math.pow(2, attempt) * 2000, 10000)
FetchBackoff(att) == Min(Pow2(att) * PriceBackoffBase, PriceBackoffCap)

(***************************************************************************)
(* getRecommendations and recommend.  An action runs from one suspension   *)
(* point (an HTTP request in flight, a backoff sleep) to the next.         *)
(***************************************************************************)
NoSignalNever(fav, viewed, ls) == FALSE

\* (!favorites || favorites.length === 0) && (!recentlyViewed || ...) && !lastSearch
NoSignal(fav, viewed, ls) == Len(fav) = 0 /\ Len(viewed) = 0 /\ ~ls

\* for (const srcId of sourceIds) { if (!feature) continue; ... }: the first
\* position from i on whose id has a feature, or one past the end
RECURSIVE NextSource(_, _, _)
NextSource(ls, srcs, i) ==
    IF i > Len(srcs) THEN i
    ELSE IF HasFeature(ls, srcs[i]) THEN i
    ELSE NextSource(ls, srcs, i + 1)

\* results.map(id -> listing).filter(Boolean): the listings sent, by id
MapToListings(ls, results) ==
    LET Known(r) == FindListing(ls, r.id) # 0
    IN  IdsOf(SelectSeq(results, Known))

\* the place of ls[i] once ls is sorted newest first; Array.prototype.sort is
\* stable, so of two listings created together the earlier one stays first
RecencyRank(ls, i) ==
    1 + Cardinality({j \in 1..Len(ls) :
                        \/ ls[j].createdAt > ls[i].createdAt
                        \/ (ls[j].createdAt = ls[i].createdAt /\ j < i)})

\* allListings.slice().sort((a, b) => new Date(b.createdAt) - new Date(a.createdAt))
SortByRecency(ls) ==
    [k \in 1..Len(ls) |-> ls[CHOOSE i \in 1..Len(ls) : RecencyRank(ls, i) = k]]

RecencyFallbackUnsorted(ls, n) == IdsOf(Slice0(ls, n))

\* allListings.slice().sort(newest first).slice(0, topN)
RecencyFallback(ls, n) == IdsOf(Slice0(SortByRecency(ls), n))

\* return RecommendationService.callAiService({ features, userVector, topN })
FallbackResult(recs) == recs

FallbackAfterMergeAlways(merged) == TRUE

\* the fallbacks are reached only past `if (allRecs.length > 0) return ...`
FallbackAfterMerge(merged) == Len(merged) = 0

SetLocals(att, err, outs, slps) ==
    /\ attempt' = att
    /\ lastErr' = err
    /\ outcomes' = outs
    /\ sleeps' = slps

ResetLocals == SetLocals(0, "none", <<>>, <<>>)

\* callAiService is entered: attempt = 0, lastErr = null, first request sent
BeginCall(c) ==
    /\ pc' = "request"
    /\ ctx' = c
    /\ callLog' = Append(callLog, c)
    /\ ResetLocals

\* res.json({ success: true, recommendations })
Respond(p, result, resp, raw, err) ==
    /\ pc' = "responded"
    /\ ctx' = "none"
    /\ path' = p
    /\ recommendResult' = result
    /\ response' = resp
    /\ fallbackRaw' = raw
    /\ thrown' = err
    /\ ResetLocals

\* what `debug: { triggerPrice, ... }` throws: triggerPrice is declared nowhere
ReferenceError == [type |-> "reference", cause |-> "triggerPrice", attempts |-> 0]

\* the handler throws after recommend has returned: asyncHandler passes the
\* error to next() and the handler itself sends no reply
PassToNext(p, result, raw, err) ==
    /\ pc' = "failed"
    /\ ctx' = "none"
    /\ path' = p
    /\ recommendResult' = result
    /\ response' = <<>>
    /\ fallbackRaw' = raw
    /\ thrown' = err
    /\ ResetLocals

\* getRecommendations from the return of recommend on: the ids are mapped to
\* listings, then `if (debugMode)` builds the debug reply, which throws, and
\* otherwise the recommendations are sent
AfterRecommend(p, result, raw) ==
    IF debugMode
    THEN PassToNext(p, result, raw, ReferenceError)
    ELSE Respond(p, result, MapToListings(listings, result), raw, NoError)

\* the awaited callAiService calls of processSourceList have all settled
Settled(log) == [i \in 1..Len(log) |-> [log[i] EXCEPT !.done = TRUE]]

\* processSourceList from position i on with the lists collected so far, then
\* the merge and what follows it, up to the next service call or the response
ContinueCollect(i, collected, gsrc) ==
    \E srcs \in {Sources(favorites, recentlyViewed)} :
    \E groups \in {collected} :
    \E j \in {NextSource(listings, srcs, i)} :
    \E merged \in {RoundRobinMerge(groups)} :
        /\ collectedRecsGroups' = groups
        /\ groupSources' = gsrc
        /\ srcIdx' = j
        /\ queryLog' = IF j <= Len(srcs)
                       THEN Append(Settled(queryLog),
                                   [src |-> srcs[j], done |-> FALSE])
                       ELSE Settled(queryLog)
        /\ UNCHANGED <<rawRecs, callReturn>>
        /\ IF j <= Len(srcs)
           THEN /\ BeginCall("interaction")
                /\ UNCHANGED <<fallbackRaw, recommendResult, path, response, thrown>>
           ELSE IF ~FallbackAfterMerge(merged)
           THEN /\ AfterRecommend("fused", Slice0(merged, topN), fallbackRaw)
                /\ UNCHANGED callLog
           ELSE IF lastSearch
           THEN /\ BeginCall("lastsearch")
                /\ UNCHANGED <<fallbackRaw, recommendResult, path, response, thrown>>
           ELSE /\ BeginCall("coldstart")
                /\ UNCHANGED <<fallbackRaw, recommendResult, path, response, thrown>>

\* callAiService returned recs to whoever awaited it
CallReturns(recs, att, err, outs, slps) ==
    IF ctx = "standalone"
    THEN /\ pc' = "returned"
         /\ callReturn' = "ok"
         /\ SetLocals(att, err, outs, slps)
         /\ UNCHANGED <<ctx, srcIdx, queryLog, collectedRecsGroups, groupSources, rawRecs,
                        callLog, fallbackRaw, recommendResult, path, response,
                        thrown>>
    ELSE IF ctx = "interaction"
    THEN LET srcId == Sources(favorites, recentlyViewed)[srcIdx]
             valid == FilterRecs(listings, favorites, recentlyViewed, srcId, recs)
         IN  ContinueCollect(srcIdx + 1,
                             PushGroup(collectedRecsGroups, valid),
                             IF Len(valid) > 0
                             THEN Append(groupSources, srcId) ELSE groupSources)
    ELSE /\ AfterRecommend(ctx, FallbackResult(recs), recs)
         /\ UNCHANGED <<srcIdx, queryLog, collectedRecsGroups, groupSources, rawRecs,
                        callLog, callReturn>>

CallThrowsAbortsRequest(e, att, err, outs, slps) ==
    IF ctx = "standalone"
    THEN /\ pc' = "threw"
         /\ thrown' = e
         /\ SetLocals(att, err, outs, slps)
         /\ UNCHANGED <<ctx, srcIdx, queryLog, collectedRecsGroups, groupSources, rawRecs,
                        callLog, fallbackRaw, recommendResult, path, response,
                        callReturn>>
    ELSE /\ Respond("recency", <<>>, RecencyFallback(listings, topN),
                    fallbackRaw, e)
         /\ UNCHANGED <<srcIdx, queryLog, collectedRecsGroups, groupSources, rawRecs,
                        callLog, callReturn>>

\* callAiService threw e to whoever awaited it: processSourceList catches and
\* goes on; a fallback call's failure rejects recommend, and getRecommendations
\* answers with the most recent listings
CallThrows(e, att, err, outs, slps) ==
    IF ctx = "standalone"
    THEN /\ pc' = "threw"
         /\ thrown' = e
         /\ SetLocals(att, err, outs, slps)
         /\ UNCHANGED <<ctx, srcIdx, queryLog, collectedRecsGroups, groupSources, rawRecs,
                        callLog, fallbackRaw, recommendResult, path, response,
                        callReturn>>
    ELSE IF ctx = "interaction"
    THEN ContinueCollect(srcIdx + 1, collectedRecsGroups, groupSources)
    ELSE /\ Respond("recency", <<>>, RecencyFallback(listings, topN),
                    fallbackRaw, e)
         /\ UNCHANGED <<srcIdx, queryLog, collectedRecsGroups, groupSources, rawRecs,
                        callLog, callReturn>>

\* GET /api/recommendations/:userId, up to its first service call or its response
GetRecommendations ==
    /\ pc = "idle"
    /\ ctx = "none"
    /\ UNCHANGED <<inputVars, priceVars, attemptsSent>>
    /\ IF Len(listings) = 0
       THEN /\ Respond("empty_catalog", <<>>, <<>>, <<>>, NoError)
            /\ UNCHANGED <<srcIdx, queryLog, collectedRecsGroups, groupSources, rawRecs,
                           callLog, callReturn>>
       ELSE IF NoSignal(favorites, recentlyViewed, lastSearch)
       THEN /\ Respond("no_signal", <<>>, <<>>, <<>>, NoError)
            /\ UNCHANGED <<srcIdx, queryLog, collectedRecsGroups, groupSources, rawRecs,
                           callLog, callReturn>>
       ELSE ContinueCollect(1, <<>>, <<>>)

(***************************************************************************)
(* callAiService: one HTTP attempt settles; one backoff sleep ends.        *)
(***************************************************************************)
FlowOutcomes == {"ok", "abort", "http404"}

FlowRecs == {Rec(1, 8500), Rec(3, 8500), Rec(4, 8500), Rec(4, 8499),
             Rec(UnknownId, 8500)}

OutcomesFor(c) == IF c = "standalone" THEN Outcomes ELSE FlowOutcomes

ResponsesFor(c, o) ==
    IF c # "standalone" /\ o = "ok" THEN SeqsUpTo(FlowRecs, MaxRecs) ELSE {<<>>}

\* the try/catch inside the while loop, from the settled fetch on
AttemptSettles(o, recs) ==
    /\ pc = "request"
    /\ client = "rec"
    /\ UNCHANGED <<inputVars, priceVars>>
    /\ IF o = "ok"
       THEN CallReturns(recs, attempt, lastErr, Append(outcomes, o), sleeps)
       ELSE IF o = "invalid_payload" \/ ~RecRetriable(o)
       THEN CallThrows([type |-> "raw", cause |-> o, attempts |-> 0],
                       attempt, o, Append(outcomes, o), sleeps)
       ELSE /\ pc' = "sleep"
            /\ SetLocals(attempt + 1, o, Append(outcomes, o),
                         Append(sleeps, RecBackoff(attempt + 1)))
            /\ UNCHANGED <<ctx, srcIdx, queryLog, collectedRecsGroups, groupSources,
                           rawRecs, callLog, fallbackRaw, recommendResult, path,
                           response, thrown, callReturn>>

\* one HTTP attempt of callAiService settles
CallAiServiceSettles(o, recs) ==
    /\ AttemptSettles(o, recs)
    /\ UNCHANGED attemptsSent

\* the same step in the load runs, which count the attempts sent so far
CallAiServiceSettlesCounted(o, recs) ==
    /\ AttemptSettles(o, recs)
    /\ attemptsSent' = attemptsSent + 1

\* the backoff timer fires; `continue` re-tests the loop condition
CallAiServiceWakes ==
    /\ pc = "sleep"
    /\ client = "rec"
    /\ UNCHANGED <<inputVars, priceVars, attemptsSent>>
    /\ IF RecLoopContinues(attempt, envRetries)
       THEN /\ pc' = "request"
            /\ UNCHANGED <<ctx, srcIdx, queryLog, collectedRecsGroups, groupSources,
                           rawRecs, callLog, fallbackRaw, recommendResult, path,
                           response, attempt, lastErr, outcomes, sleeps, thrown,
                           callReturn>>
       ELSE CallThrows([type |-> "exhausted", cause |-> lastErr,
                        attempts |-> RecRetries(envRetries) + 1],
                       attempt, lastErr, outcomes, sleeps)

\* callAiService called on its own
CallAiService ==
    /\ pc = "idle"
    /\ ctx = "standalone"
    /\ client = "rec"
    /\ pc' = "request"
    /\ UNCHANGED <<inputVars, priceVars, attemptsSent, ctx, srcIdx, queryLog, collectedRecsGroups, groupSources,
                   rawRecs, callLog, fallbackRaw, recommendResult, path,
                   response, attempt, lastErr, outcomes, sleeps, thrown,
                   callReturn>>

(***************************************************************************)
(* Filter runs: a request with one favorite and at most one viewed listing *)
(* whose first scoring call is in flight, against a service that answers   *)
(* every query of the request with rawRecs.  A step is the settling of one *)
(* interaction's call: the body of the try block of processSourceList      *)
(* filters the answer and pushes the surviving list; then the next         *)
(* interaction is queried or, after the last one, the merge is returned or *)
(* a fallback call is started, where the run ends.                         *)
(***************************************************************************)
FilterViewedChoices == {<<>>, <<3>>, <<4>>}

InitFilter ==
    /\ listings = Catalog
    /\ favorites \in {<<i>> : i \in CatalogIds}
    /\ recentlyViewed \in FilterViewedChoices
    /\ lastSearch = FALSE
    /\ topN = DefaultTopN
    /\ envRetries = 0
    /\ debugMode = FALSE
    /\ client = "rec"
    /\ pc = "request"
    /\ ctx = "interaction"
    /\ LocalsIdle
    /\ PriceIdle
    /\ attemptsSent = 0
    /\ srcIdx = 1
    /\ queryLog = <<[src |-> favorites[1], done |-> FALSE]>>
    /\ collectedRecsGroups = <<>>
    /\ groupSources = <<>>
    /\ rawRecs \in SeqsUpTo(ServiceRecs, MaxFilterRecs)
    /\ callLog = <<"interaction">>
    /\ fallbackRaw = <<>>
    /\ recommendResult = <<>>
    /\ path = "none"
    /\ response = <<>>
    /\ thrown = NoError
    /\ callReturn = "none"

\* the call of the interaction at srcIdx is answered with rawRecs
FilterResponse ==
    /\ ctx = "interaction"
    /\ CallAiServiceSettles("ok", rawRecs)

NextFilter == FilterResponse

SpecFilter == InitFilter /\ [][NextFilter]_vars

\* the collected lists that came from the interaction src
GroupsOf(src) ==
    {g \in 1..Len(collectedRecsGroups) : groupSources[g] = src}

\* what the filter left of the answers to the interaction src
SurvivorsOf(src) == UNION {Range(collectedRecsGroups[g]) : g \in GroupsOf(src)}

\* everything the filter runs collected
Survivors == UNION {Range(collectedRecsGroups[g]) : g \in 1..Len(collectedRecsGroups)}

\* the interactions whose call has been answered
AnsweredSources == {queryLog[k].src : k \in {j \in 1..Len(queryLog) : queryLog[j].done}}

PriceOfId(id) == EffectivePrice(listings[FindListing(listings, id)])

SourcePrice == PriceOfId(favorites[1])

\* b lies in [0.5 a, 2 a], both ends included
WithinRatio(a, b) == 2 * b >= a /\ b <= 2 * a

\* C4 as stated: every survivor of the per-interaction filter has an effective
\* price within [0.5x, 2.0x] of the effective price of the interaction it was
\* collected for, for all prices, a price of 0 (missing) included.
C4_PriceRatioAllPrices ==
    \A g \in 1..Len(collectedRecsGroups) :
        \A r \in Range(collectedRecsGroups[g]) :
            WithinRatio(PriceOfId(groupSources[g]), PriceOfId(r.id))

\* C4 amended: when the source's and the candidate's effective prices are both
\* positive, a candidate outside [0.5x, 2.0x] of the source price never
\* survives that source's filter, so every survivor with a positive price
\* under a positively priced source is within the bounds, bounds included,
\* and every element of the fused result is such a survivor.
C4_PriceRatioPositivePrices ==
    /\ \A src \in AnsweredSources : \A r \in Range(rawRecs) :
          ( /\ FindListing(listings, r.id) # 0
            /\ PriceOfId(src) > 0
            /\ PriceOfId(r.id) > 0
            /\ ~WithinRatio(PriceOfId(src), PriceOfId(r.id)) )
          => r \notin SurvivorsOf(src)
    /\ \A g \in 1..Len(collectedRecsGroups) :
          \A r \in Range(collectedRecsGroups[g]) :
              (PriceOfId(groupSources[g]) > 0 /\ PriceOfId(r.id) > 0)
              => WithinRatio(PriceOfId(groupSources[g]), PriceOfId(r.id))
    /\ \A i \in 1..Len(recommendResult) : recommendResult[i] \in Survivors

\* Source priced 1000: the response held a candidate priced 400 and one priced
\* 500, both scored 0.85; 400 was dropped and 500 was kept.
C4_Witness ==
    /\ pc = "responded"
    /\ SourcePrice = 1000
    /\ recentlyViewed = <<>>
    /\ \E r \in Range(rawRecs) :
          /\ FindListing(listings, r.id) # 0
          /\ PriceOfId(r.id) = 400 /\ r.score = 8500 /\ r \notin Survivors
    /\ \E r \in Survivors : PriceOfId(r.id) = 500

\* C5: a candidate survives the per-interaction filter only if its score is
\* at least 0.85 (a null score never survives), so every element of the fused
\* result has a score of at least 0.85.
C5_SimilarityFloor ==
    /\ \A r \in Survivors : r.score # NullScore /\ r.score >= 8500
    /\ \A src \in AnsweredSources : \A r \in Range(rawRecs) :
          (r.score = NullScore \/ r.score < 8500) => r \notin SurvivorsOf(src)
    /\ \A i \in 1..Len(recommendResult) :
          recommendResult[i].score # NullScore /\ recommendResult[i].score >= 8500

\* The response held one candidate scored exactly 0.85 and one scored 0.8499,
\* both otherwise acceptable: the first was kept, the second dropped.
C5_Witness ==
    /\ pc = "responded"
    /\ favorites = <<1>>
    /\ recentlyViewed = <<>>
    /\ rawRecs = <<Rec(3, 8500), Rec(4, 8499)>>
    /\ collectedRecsGroups = <<<<Rec(3, 8500)>>>>
    /\ recommendResult = <<Rec(3, 8500)>>

\* C6: no candidate whose id is a favorite or a recently viewed listing enters
\* a collected list, so none is in the fused result.
C6_KnownItemsExcluded ==
    /\ \A r \in Survivors : r.id \notin Range(favorites) \cup Range(recentlyViewed)
    /\ \A i \in 1..Len(recommendResult) :
          recommendResult[i].id \notin Range(favorites) \cup Range(recentlyViewed)

\* Both interactions were answered with the recently viewed listing 3 and the
\* fresh listing 4, both with a passing score: 3 was dropped both times, and 4
\* was kept for the favorite, whose price allows it.
C6_Witness ==
    /\ pc = "responded"
    /\ favorites = <<1>>
    /\ recentlyViewed = <<3>>
    /\ rawRecs = <<Rec(3, 8500), Rec(4, 8500)>>
    /\ Len(queryLog) = 2
    /\ collectedRecsGroups = <<<<Rec(4, 8500)>>>>
    /\ groupSources = <<1>>

(***************************************************************************)
(* Price estimation: the data.  Times are counted in quarter days, so the  *)
(* 365.25-day year of calculatePropertyAge is 1461 of them.  Normalised    *)
(* area is in 1/10000, category and type codes in 1/100, prices returned   *)
(* by the prediction service in tenths of a currency unit.                 *)
(*                                                                         *)
(* A property of a request body is absent, null or a value: a number n or  *)
(* a text s.                                                               *)
(***************************************************************************)
FAbsent == [p |-> "absent", n |-> 0, s |-> ""]
FNull == [p |-> "null", n |-> 0, s |-> ""]
FNum(k) == [p |-> "value", n |-> k, s |-> ""]
FStr(x) == [p |-> "value", n |-> 0, s |-> x]

YearQuarterDays == 1461

PropertyAgeInQuarterDays(createdAt, t) ==
    IF createdAt.p # "value" \/ createdAt.n = 0 THEN 0 ELSE t - createdAt.n

\* calculatePropertyAge: whole 365.25-day years between createdAt and now;
\* a createdAt that is missing, null or 0 is falsy and gives age 0
PropertyAge(createdAt, t) ==
    IF createdAt.p # "value" \/ createdAt.n = 0 THEN 0
    ELSE (t - createdAt.n) \div YearQuarterDays

\* address.split(',').map(trim).filter(Boolean): the non-empty parts
AddressParts(address) == SelectSeq(address, LAMBDA part : part # "")

\* extractCity: the second-to-last part, the only part, or 'unknown'
ExtractCity(address) ==
    LET parts == AddressParts(address)
    IN  IF Len(parts) = 0 THEN "unknown"
        ELSE IF Len(parts) >= 2 THEN parts[Len(parts) - 1]
        ELSE parts[1]

\* charCodeAt of every character of the city names in use
CharCodes(name) ==
    CASE name = "mumbai" -> <<109, 117, 109, 98, 97, 105>>
      [] name = "Denver" -> <<68, 101, 110, 118, 101, 114>>
      [] name = "unknown" -> <<117, 110, 107, 110, 111, 119, 110>>
      [] OTHER -> <<>>

\* _encodeCategory: (sum of char codes % 100) / 100, and 0.5 for no category
EncodeCategory(name) ==
    IF name = "" THEN 50 ELSE SumSeq(CharCodes(name)) % 100

\* toLowerCase of the listing types and city names in use
LowerCase(x) ==
    CASE x = "Sale" -> "sale"
      [] x = "Rent" -> "rent"
      [] x = "Denver" -> "denver"
      [] x = "DENVER" -> "denver"
      [] x = "Mumbai" -> "mumbai"
      [] x = "Pune" -> "pune"
      [] OTHER -> x

\* rent = 0.0, sale = 1.0, anything else 0.5
TypeCode(type) ==
    LET typeStr == LowerCase(IF type.s = "" THEN "unknown" ELSE type.s)
    IN  IF typeStr = "rent" THEN 0 ELSE IF typeStr = "sale" THEN 100 ELSE 50

\* Number(x) || d and parseInt(x) || d on the numbers in use
NumberOr(f, d) == IF f.p = "value" /\ f.n # 0 THEN f.n ELSE d

\* the city predictPrice settles on: the city field, the address, or 'mumbai'
ResolveCity(b) ==
    IF b.city.p = "value" /\ b.city.s # "" THEN b.city.s
    ELSE IF Len(b.address) > 0 THEN ExtractCity(b.address)
    ELSE "mumbai"

\* the feature vector predictPrice sends, at time t
Features(b, t) ==
    [normalized_area_sqft |-> Min(10000, Max(0, NumberOr(b.areaSqFt, 1000))),
     bedrooms |-> NumberOr(b.bedrooms, 1),
     bathrooms |-> NumberOr(b.bathrooms, 1),
     normalized_city_code |-> EncodeCategory(ResolveCity(b)),
     normalized_type_code |-> TypeCode(b.type),
     property_age_years |-> PropertyAge(b.createdAt, t)]

NoFeatures == [normalized_area_sqft |-> 0, bedrooms |-> 0, bathrooms |-> 0,
               normalized_city_code |-> 0, normalized_type_code |-> 0,
               property_age_years |-> 0]

RequiredFields == <<"areaSqFt", "bedrooms", "bathrooms", "type">>

FieldOf(b, name) ==
    CASE name = "areaSqFt" -> b.areaSqFt
      [] name = "bedrooms" -> b.bedrooms
      [] name = "bathrooms" -> b.bathrooms
      [] OTHER -> b.type

FieldMissingAbsentOnly(b, name) == FieldOf(b, name).p = "absent"

\* !(field in propertyData) || propertyData[field] === null
FieldMissing(b, name) == FieldOf(b, name).p \in {"absent", "null"}

\* position in RequiredFields of the first missing field, 0 when none is
RECURSIVE FirstMissing(_, _)
FirstMissing(b, i) ==
    IF i > Len(RequiredFields) THEN 0
    ELSE IF FieldMissing(b, RequiredFields[i]) THEN i
    ELSE FirstMissing(b, i + 1)

\* Object.keys(propertyData).length === 0
EmptyBody(b) ==
    /\ \A i \in 1..Len(RequiredFields) : FieldOf(b, RequiredFields[i]).p = "absent"
    /\ b.createdAt.p = "absent"
    /\ b.city.p = "absent"
    /\ Len(b.address) = 0

\* Math.round of a non-negative number given in tenths
RoundTenths(x) == (x + 5) \div 10

\* the prediction service: some fixed function of the submitted features
ServicePrediction(f) ==
    LET price == 1000000 + 300 * f.normalized_area_sqft + 200005 * f.bedrooms
                 + 150000 * f.bathrooms + 1000 * f.normalized_type_code
                 - 200 * f.property_age_years
    IN  [predicted_price |-> price,
         price_range |-> [min |-> (price * 85) \div 100, max |-> (price * 115) \div 100]]

\* what predictPrice returns for a well-formed prediction
PredictionResult(prediction) ==
    [predicted_price |-> RoundTenths(prediction.predicted_price),
     price_range |-> [min |-> RoundTenths(prediction.price_range.min),
                      max |-> RoundTenths(prediction.price_range.max)]]

NoPrediction == [predicted_price |-> 0, price_range |-> [min |-> 0, max |-> 0]]

(***************************************************************************)
(* The listings collection as the price side reads it.                     *)
(***************************************************************************)
PriceListing(i, rp, beds, baths) ==
    [id |-> i, regularPrice |-> rp, discountPrice |-> 0, createdAt |-> 10 * i,
     bedrooms |-> beds, bathrooms |-> baths,
     areaSqFt |-> IF i % 4 = 0 THEN 0 ELSE 500 + 10 * i,
     address |-> <<"12 Main St", "Denver", "CO">>,
     type |-> IF i % 2 = 0 THEN "Sale" ELSE "Rent"]

\* a listing with a positive price and positive bedroom and bathroom counts
GoodListing(i) == PriceListing(i, 1000 + i, 1 + (i % 3), 1 + (i % 2))

\* a listing that lacks one of the three
PoorListing(i) ==
    CASE i % 3 = 0 -> PriceListing(i, 0, 2, 1)
      [] i % 3 = 1 -> PriceListing(i, 1000 + i, 0, 1)
      [] OTHER -> PriceListing(i, 1000 + i, 2, 0)

\* a collection of k listings that lack something followed by e that do not
Db(e, k) ==
    [i \in 1..(k + e) |-> IF i <= k THEN PoorListing(i) ELSE GoodListing(i)]

EligibleIgnoringBathrooms(l) == l.regularPrice > 0 /\ l.bedrooms > 0

\* regularPrice, bedrooms and bathrooms exist and are > 0
Eligible(l) == l.regularPrice > 0 /\ l.bedrooms > 0 /\ l.bathrooms > 0

EligibleListings(ls) == SelectSeq(ls, Eligible)

\* countDocuments over the same filter
CurrentCount(ls) == Len(EligibleListings(ls))

\* one row of the training batch
TrainingRow(l, t) ==
    [area_sqft |-> IF l.areaSqFt = 0 THEN 1000 ELSE l.areaSqFt,
     bedrooms |-> IF l.bedrooms = 0 THEN 1 ELSE l.bedrooms,
     bathrooms |-> IF l.bathrooms = 0 THEN 1 ELSE l.bathrooms,
     city |-> ExtractCity(l.address),
     type |-> LowerCase(l.type),
     age_years |-> PropertyAge(FNum(l.createdAt), t),
     price |-> l.regularPrice]

\* listings.map(listing => row)
TrainingRows(ls, t) ==
    LET el == EligibleListings(ls)
    IN  [i \in 1..Len(el) |-> TrainingRow(el[i], t)]

(***************************************************************************)
(* Price estimation: the request handlers and the service methods they     *)
(* call.  A step runs from one suspension (an HTTP attempt of              *)
(* fetchWithRetry in flight, a backoff sleep, an awaited read of the       *)
(* listings collection) to the next.  The functions below map the control  *)
(* state of the running handler to its next control state.                 *)
(*                                                                         *)
(* An error message is the sequence of its parts, outermost first.         *)
(***************************************************************************)
MessagePart(text, n, f) == [text |-> text, attempts |-> n, field |-> f]

Msg(text) == <<MessagePart(text, 0, "")>>

\* the message of the error one failed attempt throws inside fetchWithRetry
CauseText(o) ==
    CASE o = "http503" -> "Service waking up (503)"
      [] o = "http404" -> "AI Service returned 404: Not Found"
      [] o = "http504" -> "AI Service returned 504: Gateway Timeout"
      [] o = "abort" -> "The user aborted a request."
      [] o = "ECONNREFUSED" -> "request failed, reason: connect ECONNREFUSED"
      [] o = "ENOTFOUND" -> "request failed, reason: getaddrinfo ENOTFOUND"
      [] OTHER -> o

\* `AI Service request failed after ${retries} attempts: ${error.message}`
FetchFailureMessage(err) ==
    <<MessagePart("AI Service request failed after attempts", err.attempts, "")>>
        \o Msg(CauseText(err.cause))

\* error.message.includes('Missing required field')
IncludesMissingField(m) ==
    \E i \in 1..Len(m) : m[i].text = "Missing required field"

NoBody == [areaSqFt |-> FAbsent, bedrooms |-> FAbsent, bathrooms |-> FAbsent,
           type |-> FAbsent, createdAt |-> FAbsent, city |-> FAbsent,
           address |-> <<>>]

NoStatus == [source |-> "none", is_trained |-> FALSE, has_count |-> FALSE,
             training_count |-> 0]

\* checkModelStatus's catch: return { is_trained: false }
DefaultStatus == [source |-> "default", is_trained |-> FALSE,
                  has_count |-> FALSE, training_count |-> 0]

\* logged is the error.message the handler's catch block writes to the console
NoResponse == [code |-> 0, success |-> FALSE, message |-> <<>>,
               result |-> NoPrediction, listing |-> 0, logged |-> <<>>]

NoCheck == [done |-> FALSE, needsRetraining |-> FALSE, retrained |-> FALSE,
            error |-> <<>>]

ErrorResponse(code, m, err) ==
    [NoResponse EXCEPT !.code = code, !.message = m, !.logged = err]

\* the control state of the running handler
PriceCur == [pc |-> pc, ctx |-> ctx, status |-> status, opLog |-> opLog,
             sent |-> sent, httpResponse |-> httpResponse,
             checkResult |-> checkResult, thrown |-> thrown, dbLog |-> dbLog]

\* fetchWithRetry(url, options) is called: its first attempt is in flight
StartFetch(st, endpoint, features, rows) ==
    [st EXCEPT !.pc = "request", !.ctx = endpoint,
               !.sent = Append(@, [endpoint |-> endpoint, features |-> features,
                                   rows |-> rows])]

\* res.status(code).json(...)
Reply(st, resp) ==
    [st EXCEPT !.pc = "responded", !.ctx = "none", !.httpResponse = resp]

\* the catch block of the predictPrice request handler
PredictErrorResponse(m) ==
    IF IncludesMissingField(m)
    THEN ErrorResponse(400, m, m)
    ELSE ErrorResponse(503, Msg("AI service unavailable. Please try again later."), m)

\* the catch block of the trainModel request handler
TrainErrorResponse(m) == ErrorResponse(503, Msg("Model training failed") \o m, m)

\* PriceEstimationService.predictPrice throws: its outer catch wraps the
\* message and the request handler answers
PredictFailed(st, m) ==
    Reply(st, PredictErrorResponse(Msg("Price prediction failed") \o m))

OnCheckSettledPropagates(resp, result) ==
    IF Len(result.error) > 0
    THEN ErrorResponse(500, result.error, result.error)
    ELSE resp

\* createListing has answered already; the settled check only logs
OnCheckSettled(resp, result) == resp

\* checkAndRetainIfNeeded resolves with result
CheckSettles(st, result) ==
    [st EXCEPT !.pc = "responded", !.ctx = "none",
               !.checkResult = [result EXCEPT !.done = TRUE],
               !.httpResponse = IF op = "create"
                                THEN OnCheckSettled(@, result) ELSE @]

\* trainModel's catch: throw new Error(`Failed to train price model: ...`)
TrainModelThrows(st0, m) ==
    LET err == Msg("Failed to train price model") \o m
        st  == [st0 EXCEPT !.opLog = Append(@, "trainModel threw")]
    IN  CASE op = "predict" -> PredictFailed(st, err)
          [] op = "train" -> Reply(st, TrainErrorResponse(err))
          [] OTHER -> CheckSettles(st, [NoCheck EXCEPT !.error = err])

\* if (listings.length < 5) throw Insufficient data
MinTrainingListings == 5

\* one operation on the listings collection: n is the number of documents a
\* read returned, or the id a write was about
DbOp(name, n) == [op |-> name, n |-> n]

\* PriceEstimationService.trainModel is entered and awaits Listing.find
InvokeTrainModel(st) ==
    [st EXCEPT !.opLog = Append(@, "trainModel"), !.pc = "find", !.ctx = "find"]

\* Listing.find resolved with the eligible listings of ls: trainModel up to
\* its request to /train-price-model
FindResolved(st, ls, t) ==
    LET st1 == [st EXCEPT !.dbLog = Append(@, DbOp("find", CurrentCount(ls)))]
    IN  IF CurrentCount(ls) < MinTrainingListings
        THEN TrainModelThrows(st1, Msg("Insufficient data: need at least 5 listings"))
        ELSE StartFetch(st1, "train", NoFeatures, TrainingRows(ls, t))

\* trainModel returned { success: true, ... }
TrainModelReturns(st0, t) ==
    LET st == [st0 EXCEPT !.opLog = Append(@, "trainModel returned")]
    IN
    CASE op = "predict" -> StartFetch(st, "predict2", st.sent[1].features, <<>>)
      [] op = "train" ->
            Reply(st, [NoResponse EXCEPT !.code = 200, !.success = TRUE,
                                         !.message = Msg("Model trained successfully")])
      [] OTHER ->
            CheckSettles(st, [NoCheck EXCEPT !.retrained = TRUE,
                                             !.needsRetraining = ~st.status.is_trained])

\* currentCount - (status.training_count || currentCount)
RetrainDelta(cur, st) ==
    cur - (IF st.has_count /\ st.training_count # 0 THEN st.training_count ELSE cur)

RetrainThreshold == 5

ModelUntrainedAlways(reply) == TRUE

\* !status.is_trained
ModelUntrained(reply) == ~reply.is_trained

\* what follows `const status = await this.checkModelStatus()`, up to the
\* next await: Listing.find of trainModel, or Listing.countDocuments
StatusKnown(st0, reply) ==
    LET st == [st0 EXCEPT !.status = reply]
    IN  IF op = "predict"
        THEN IF ModelUntrained(reply)
             THEN InvokeTrainModel(st)
             ELSE PredictFailed(st, FetchFailureMessage(st.thrown))
        ELSE IF ModelUntrained(reply)
             THEN InvokeTrainModel(st)
             ELSE [st EXCEPT !.pc = "count", !.ctx = "count"]

\* Listing.countDocuments resolved with cur: checkAndRetainIfNeeded from
\* `const trainingCount = ...` on
CountResolved(st0, cur) ==
    LET st == [st0 EXCEPT !.dbLog = Append(@, DbOp("countDocuments", cur))]
    IN  IF RetrainDelta(cur, st.status) >= RetrainThreshold
        THEN InvokeTrainModel(st)
        ELSE CheckSettles(st, NoCheck)

\* the prediction request got a 2xx answer: validate and return it
PredictReturns(st, o) ==
    IF o = "ok"
    THEN Reply(st, [NoResponse EXCEPT
                      !.code = 200, !.success = TRUE,
                      !.result = PredictionResult(
                                   ServicePrediction(st.sent[Len(st.sent)].features))])
    ELSE PredictFailed(st, Msg("Invalid response from AI service"))

\* fetchWithRetry returned a 2xx response to the method awaiting it
PriceFetchReturns(st, o, reply, ls, t) ==
    CASE st.ctx = "status" -> StatusKnown(st, reply)
      [] st.ctx = "train" -> TrainModelReturns(st, t)
      [] OTHER -> PredictReturns(st, o)

\* fetchWithRetry threw err to the method awaiting it
PriceFetchThrows(st, err, ls, t) ==
    CASE st.ctx = "predict1" ->
            StartFetch([st EXCEPT !.thrown = err,
                                  !.opLog = Append(@, "checkModelStatus")],
                       "status", NoFeatures, <<>>)
      [] st.ctx = "status" -> StatusKnown(st, DefaultStatus)
      [] st.ctx = "train" -> TrainModelThrows(st, FetchFailureMessage(err))
      [] OTHER -> PredictFailed(st, FetchFailureMessage(err))

\* the variables of the recommendation side and of the decoder
recVars == <<favorites, recentlyViewed, lastSearch, topN, srcIdx, queryLog,
             collectedRecsGroups, groupSources, rawRecs, callLog, fallbackRaw,
             recommendResult, path, response, callReturn, payload, decoded,
             values, search, computed, reqs, attemptsSent>>

\* the handler moves to control state st over the collection ls
PriceSet(st, ls) ==
    /\ pc' = st.pc
    /\ ctx' = st.ctx
    /\ status' = st.status
    /\ opLog' = st.opLog
    /\ sent' = st.sent
    /\ httpResponse' = st.httpResponse
    /\ checkResult' = st.checkResult
    /\ thrown' = st.thrown
    /\ dbLog' = st.dbLog
    /\ listings' = ls
    /\ ResetLocals
    /\ UNCHANGED <<recVars, envRetries, debugMode, client, op, body, now, runs>>

\* POST /api/price-estimate/predict, up to its first request or its response
PredictPrice ==
    /\ pc = "idle"
    /\ op = "predict"
    /\ IF EmptyBody(body)
       THEN PriceSet(Reply(PriceCur,
                           ErrorResponse(400, Msg("Property data is required"),
                                         <<>>)),
                     listings)
       ELSE LET st == [PriceCur EXCEPT !.opLog = Append(@, "predictPrice")]
                i  == FirstMissing(body, 1)
            IN  IF i # 0
                THEN PriceSet(PredictFailed(st,
                                 <<MessagePart("Missing required field", 0,
                                               RequiredFields[i])>>),
                              listings)
                ELSE PriceSet(StartFetch(st, "predict1", Features(body, now), <<>>),
                              listings)

\* POST /api/price-estimate/train
TrainModel ==
    /\ pc = "idle"
    /\ op = "train"
    /\ PriceSet(InvokeTrainModel(PriceCur), listings)

\* Listing.countDocuments of checkAndRetainIfNeeded resolves
CountDocumentsSettles ==
    /\ pc = "count"
    /\ client = "price"
    /\ PriceSet(CountResolved(PriceCur, CurrentCount(listings)), listings)

\* Listing.find of trainModel resolves
ListingFindSettles ==
    /\ pc = "find"
    /\ client = "price"
    /\ PriceSet(FindResolved(PriceCur, listings, now), listings)

\* Listing.create(req.body): the document is appended to the collection
StoreListing(ls, l) == Append(ls, l)

\* Listing.findByIdAndDelete(id)
RemoveListing(ls, id) == SelectSeq(ls, LAMBDA l : l.id # id)

\* Listing.findByIdAndUpdate(id, req.body): the properties of the body
\* replace those of the stored document
PatchListing(ls, id, patch) ==
    [i \in 1..Len(ls) |->
        IF ls[i].id = id THEN [ls[i] EXCEPT !.bedrooms = patch.bedrooms]
        ELSE ls[i]]

\* an id no document of the collection has
FreshId(ls) ==
    IF Len(ls) = 0 THEN 1
    ELSE 1 + (CHOOSE m \in {ls[i].id : i \in 1..Len(ls)} :
                 \A i \in 1..Len(ls) : ls[i].id <= m)

\* the bodies of the updateListing requests: bedrooms removed, bedrooms set
UpdateBodies == {[bedrooms |-> 0], [bedrooms |-> 3]}

\* the documents the writes of other requests are about: a new one for a
\* create, the oldest or the newest of the collection otherwise
WriteTargets(w, ls) ==
    IF w = "create" THEN {FreshId(ls)}
    ELSE IF Len(ls) = 0 THEN {}
    ELSE {ls[1].id, ls[Len(ls)].id}

WriteOps == {"create", "delete", "update"}

ReadOps == {"countDocuments", "find"}

WritesLanded(log) == Cardinality({i \in 1..Len(log) : log[i].op \in WriteOps})

ReadsResolved(log) == Cardinality({i \in 1..Len(log) : log[i].op \in ReadOps})

\* the write of another request (createListing, deleteListing,
\* updateListing) reaches the collection between two reads of it by this
\* handler: after Listing.countDocuments has resolved and before Listing.find
\* does.  A write that lands before the handler's first read is seen by it
\* as a different collection to start from.
ConcurrentWrite(w, id, patch) ==
    /\ pc = "find"
    /\ client = "price"
    /\ ReadsResolved(dbLog) > 0
    /\ WritesLanded(dbLog) < MaxWrites
    /\ id \in WriteTargets(w, listings)
    /\ dbLog' = Append(dbLog, DbOp(w, id))
    /\ listings' = CASE w = "create" -> StoreListing(listings, GoodListing(id))
                      [] w = "delete" -> RemoveListing(listings, id)
                      [] OTHER -> PatchListing(listings, id, patch)
    /\ UNCHANGED <<recVars, envRetries, debugMode, client, op, body, now, runs,
                   pc, ctx, status, opLog, sent, httpResponse, checkResult,
                   thrown, attempt, lastErr, outcomes, sleeps>>

\* PriceEstimationService.checkAndRetainIfNeeded() called on its own
CheckAndRetainIfNeeded ==
    /\ pc = "idle"
    /\ op = "check"
    /\ PriceSet(StartFetch([PriceCur EXCEPT !.opLog = Append(@, "checkModelStatus")],
                           "status", NoFeatures, <<>>),
                listings)

\* POST /api/listing/create: the listing is stored, the retrain check is
\* started and left running, the 201 answer is sent; when Listing.create
\* rejects, the error goes to next() and no check is started
CreateListing(good, created) ==
    /\ pc = "idle"
    /\ op = "create"
    /\ LET l  == IF good THEN GoodListing(FreshId(listings))
                 ELSE PoorListing(FreshId(listings))
           ls == StoreListing(listings, l)
           st == StartFetch([PriceCur EXCEPT
                                !.opLog = Append(@, "checkModelStatus"),
                                !.dbLog = Append(@, DbOp("Listing.create", l.id))],
                            "status", NoFeatures, <<>>)
       IN  IF created
           THEN PriceSet([st EXCEPT !.httpResponse =
                            [NoResponse EXCEPT !.code = 201, !.success = TRUE,
                                               !.listing = l.id]],
                         ls)
           ELSE PriceSet(Reply(PriceCur,
                               ErrorResponse(500, Msg("Listing validation failed"),
                                             Msg("Listing validation failed"))),
                         listings)

\* the same client sends the same body again, now or later
RepeatPredict(t) ==
    /\ pc = "responded"
    /\ op = "predict"
    /\ Len(runs) < MaxRepeats
    /\ t >= now
    /\ now' = t
    /\ runs' = Append(runs, [at |-> now, sent |-> sent, response |-> httpResponse])
    /\ pc' = "idle"
    /\ status' = NoStatus
    /\ opLog' = <<>>
    /\ sent' = <<>>
    /\ httpResponse' = NoResponse
    /\ thrown' = NoError
    /\ dbLog' = <<>>
    /\ UNCHANGED <<recVars, listings, envRetries, debugMode, client, op, body, ctx,
                   checkResult, attempt, lastErr, outcomes, sleeps>>

(***************************************************************************)
(* Feature vectors of recommend.  A normalised value is the fraction n/d   *)
(* with d > 0, kept unreduced; a weighted component is a fraction too.      *)
(* An absent numeric property of a listing is 0 and an absent text is "",  *)
(* both falsy like undefined.                                              *)
(***************************************************************************)
Frac(n, d) == [n |-> n, d |-> d]

FracEq(a, b) == a.n * b.d = b.n * a.d

\* 0 <= a <= 1
InUnit(a) == 0 <= a.n /\ a.n <= a.d

\* 0 <= a <= w
InWeight(a, w) == 0 <= a.n /\ a.n <= w * a.d

Scale(a, w) == Frac(a.n * w, a.d)

RECURSIVE MinOf(_)
MinOf(s) == IF Len(s) = 1 THEN s[1] ELSE Min(s[1], MinOf(Tail(s)))

RECURSIVE MaxOf(_)
MaxOf(s) == IF Len(s) = 1 THEN s[1] ELSE Max(s[1], MaxOf(Tail(s)))

NormalizeUnshifted(vals) ==
    IF Len(vals) = 0 THEN <<>>
    ELSE IF MaxOf(vals) = MinOf(vals) THEN [i \in 1..Len(vals) |-> Frac(1, 2)]
    ELSE [i \in 1..Len(vals) |-> Frac(vals[i], MaxOf(vals) - MinOf(vals))]

\* normalize of the recommendation service: for the empty array Math.min()
\* is Infinity and Math.max() is -Infinity, so the map over nothing is taken
Normalize(vals) ==
    IF Len(vals) = 0 THEN <<>>
    ELSE IF MaxOf(vals) = MinOf(vals) THEN [i \in 1..Len(vals) |-> Frac(1, 2)]
    ELSE [i \in 1..Len(vals) |->
             Frac(vals[i] - MinOf(vals), MaxOf(vals) - MinOf(vals))]

\* normalize of the price service: the empty array is returned at once
PriceNormalize(vals) ==
    IF Len(vals) = 0 THEN <<>>
    ELSE IF MaxOf(vals) = MinOf(vals) THEN [i \in 1..Len(vals) |-> Frac(1, 2)]
    ELSE [i \in 1..Len(vals) |->
             Frac(vals[i] - MinOf(vals), MaxOf(vals) - MinOf(vals))]

\* extractCity of the recommendation service
RecExtractCity(address) ==
    LET parts == AddressParts(address)
    IN  IF Len(parts) = 0 THEN "unknown"
        ELSE IF Len(parts) = 1 THEN parts[1]
        ELSE parts[Len(parts) - 1]

\* areaFromListing: the area, or 400 sqft per bedroom
AreaFromListing(l) ==
    IF l.areaSqFt # 0 THEN l.areaSqFt
    ELSE (IF l.bedrooms # 0 THEN l.bedrooms ELSE 1) * 400

\* Array.from(new Set(s)): the distinct elements in first-seen order
RECURSIVE Distinct(_)
Distinct(s) ==
    IF Len(s) = 0 THEN <<>>
    ELSE LET front == Distinct(SubSeq(s, 1, Len(s) - 1))
         IN  IF s[Len(s)] \in Range(front) THEN front
             ELSE Append(front, s[Len(s)])

\* Array.prototype.indexOf: 0-based, -1 when absent
IndexOf(s, x) ==
    IF x \in Range(s) THEN (CHOOSE i \in 1..Len(s) :
                               s[i] = x /\ \A j \in 1..(i - 1) : s[j] # x) - 1
    ELSE -1

OrUnknown(x) == IF x = "" THEN "unknown" ELSE x

\* cities: the address-derived cities of the batch, lower-cased
BatchCities(ls) ==
    Distinct([i \in 1..Len(ls) |-> LowerCase(RecExtractCity(ls[i].address))])

\* types: the types of the batch, lower-cased
BatchTypes(ls) ==
    Distinct([i \in 1..Len(ls) |-> LowerCase(OrUnknown(ls[i].type))])

\* cityIndex / typeIndex: Math.max(0, list.indexOf((x || 'unknown').toLowerCase()))
CategoryIndex(list, x) == Max(0, IndexOf(list, LowerCase(OrUnknown(x))))

\* cities.length > 1 ? idx / Math.max(1, cities.length - 1) : 0
CategoryNorm(list, idx) ==
    IF Len(list) > 1 THEN Frac(idx, Max(1, Len(list) - 1)) ELSE Frac(0, 1)

\* l.city || extractCity(l.address)
CityOfListing(l) == IF l.city # "" THEN l.city ELSE RecExtractCity(l.address)

WEIGHTS == [price |-> 15, city |-> 12, area |-> 8, bathrooms |-> 4,
            bedrooms |-> 4, type |-> 2]

\* features: one weighted vector per listing of the batch
ListingVectors(ls) ==
    LET normPrices    == Normalize([i \in 1..Len(ls) |-> EffectivePrice(ls[i])])
        normAreas     == Normalize([i \in 1..Len(ls) |-> AreaFromListing(ls[i])])
        normBathrooms == Normalize([i \in 1..Len(ls) |-> ls[i].bathrooms])
        normBedrooms  == Normalize([i \in 1..Len(ls) |-> ls[i].bedrooms])
        cities        == BatchCities(ls)
        types         == BatchTypes(ls)
    IN  [idx \in 1..Len(ls) |->
           LET cityNorm == CategoryNorm(cities,
                              CategoryIndex(cities, CityOfListing(ls[idx])))
               typeNorm == CategoryNorm(types, CategoryIndex(types, ls[idx].type))
           IN  << Scale(normPrices[idx], WEIGHTS.price),
                  Scale(cityNorm, WEIGHTS.city),
                  Scale(normAreas[idx], WEIGHTS.area),
                  Scale(normBedrooms[idx], WEIGHTS.bedrooms),
                  Scale(normBathrooms[idx], WEIGHTS.bathrooms),
                  Scale(typeNorm, WEIGHTS.type) >>]

\* Math.max(...xs) || Math.min(...xs) || 1
MaxOrMinOrOne(xs) ==
    IF MaxOf(xs) # 0 THEN MaxOf(xs) ELSE IF MinOf(xs) # 0 THEN MinOf(xs) ELSE 1

\* searchBase[0]: the budget placed on the price scale of the batch
SearchPrice(ls, s) ==
    LET prices == [i \in 1..Len(ls) |-> EffectivePrice(ls[i])]
        minP   == MinOf(prices)
        maxP   == MaxOrMinOrOne(prices)
    IN  IF s.budget = 0 THEN Frac(0, 1)
        ELSE IF maxP = minP THEN Frac(1, 2)
        ELSE Frac(s.budget - minP, maxP - minP)

\* searchBase[1]
SearchCity(ls, s) ==
    IF s.city = "" THEN Frac(0, 1)
    ELSE CategoryNorm(BatchCities(ls), CategoryIndex(BatchCities(ls), s.city))

\* searchBase[2]: the middle of the requested area range on the area scale
SearchArea(ls, s) ==
    LET areas   == [i \in 1..Len(ls) |-> AreaFromListing(ls[i])]
        minA    == IF s.areaMin # 0 THEN s.areaMin ELSE s.areaMax
        maxA    == IF s.areaMax # 0 THEN s.areaMax ELSE s.areaMin
        k       == IF minA # 0 /\ maxA # 0 THEN 2 ELSE 1
        minArea == MinOf(areas)
        maxArea == MaxOrMinOrOne(areas)
    IN  IF s.areaMin = 0 /\ s.areaMax = 0 THEN Frac(0, 1)
        ELSE IF maxArea = minArea THEN Frac(1, 2)
        ELSE Frac(minA + maxA - k * minArea, k * (maxArea - minArea))

\* searchBase[3] = Number(lastSearch.bedrooms) || 0
SearchBedrooms(ls, s) == Frac(s.bedrooms, 1)

\* searchWeighted: the query vector derived from lastSearch
SearchVector(ls, s) ==
    << Scale(SearchPrice(ls, s), WEIGHTS.price),
       Scale(SearchCity(ls, s), WEIGHTS.city),
       Scale(SearchArea(ls, s), WEIGHTS.area),
       Scale(SearchBedrooms(ls, s), WEIGHTS.bedrooms),
       Scale(Frac(0, 1), WEIGHTS.bathrooms),
       Scale(Frac(0, 1), WEIGHTS.type) >>


(***************************************************************************)
(* fetchWithRetry.                                                         *)
(***************************************************************************)
\* fetchWithRetry called: the for loop starts at attempt 0
FetchWithRetry ==
    /\ pc = "idle"
    /\ ctx = "standalone"
    /\ client = "price"
    /\ IF 0 < PriceRetries(envRetries)
       THEN pc' = "request" /\ UNCHANGED callReturn
       ELSE pc' = "returned" /\ callReturn' = "undefined"
    /\ UNCHANGED <<inputVars, priceVars, attemptsSent, ctx, srcIdx, queryLog, collectedRecsGroups, groupSources,
                   rawRecs, callLog, fallbackRaw, recommendResult, path,
                   response, attempt, lastErr, outcomes, sleeps, thrown>>

\* the try/catch inside the for loop, from the settled fetch on
\* reply is the model status a 2xx answer of /model-status carries; a call
\* made by a service method hands its result to that method in the same step
FetchWithRetrySettles(o, reply) ==
    /\ pc = "request"
    /\ client = "price"
    /\ IF FetchResponseOk(o)
       THEN IF ctx = "standalone"
            THEN /\ pc' = "returned"
                 /\ callReturn' = o
                 /\ outcomes' = Append(outcomes, o)
                 /\ UNCHANGED <<inputVars, priceVars, attemptsSent, ctx, srcIdx, queryLog,
                                collectedRecsGroups, groupSources, rawRecs,
                                callLog, fallbackRaw, recommendResult, path,
                                response, attempt, lastErr, sleeps, thrown>>
            ELSE PriceSet(PriceFetchReturns(PriceCur, o, reply, listings, now),
                          listings)
       ELSE IF FetchIsLastAttempt(attempt, PriceRetries(envRetries))
       THEN LET err == [type |-> "exhausted", cause |-> o,
                        attempts |-> PriceRetries(envRetries)]
            IN  IF ctx = "standalone"
                THEN /\ pc' = "threw"
                     /\ thrown' = err
                     /\ outcomes' = Append(outcomes, o)
                     /\ UNCHANGED <<inputVars, priceVars, attemptsSent, ctx, srcIdx, queryLog,
                                    collectedRecsGroups, groupSources, rawRecs,
                                    callLog, fallbackRaw, recommendResult, path,
                                    response, attempt, lastErr, sleeps,
                                    callReturn>>
                ELSE PriceSet(PriceFetchThrows(PriceCur, err, listings, now),
                              listings)
       ELSE /\ pc' = "sleep"
            /\ sleeps' = Append(sleeps, FetchBackoff(attempt))
            /\ outcomes' = Append(outcomes, o)
            /\ UNCHANGED <<inputVars, priceVars, attemptsSent, ctx, srcIdx, queryLog,
                           collectedRecsGroups, groupSources, rawRecs, callLog,
                           fallbackRaw, recommendResult, path, response,
                           attempt, lastErr, thrown, callReturn>>

\* the backoff timer fires; attempt++ and the loop condition is re-tested
FetchWithRetryWakes ==
    /\ pc = "sleep"
    /\ client = "price"
    /\ attempt' = attempt + 1
    /\ IF attempt + 1 < PriceRetries(envRetries)
       THEN pc' = "request" /\ UNCHANGED callReturn
       ELSE pc' = "returned" /\ callReturn' = "undefined"
    /\ UNCHANGED <<inputVars, priceVars, attemptsSent, ctx, srcIdx, queryLog, collectedRecsGroups, groupSources,
                   rawRecs, callLog, fallbackRaw, recommendResult, path,
                   response, lastErr, outcomes, sleeps, thrown>>

(***************************************************************************)
(* The recommendation request.                                             *)
(***************************************************************************)
InteractionIds == {1, 3, UnknownId}

Init ==
    /\ listings \in {<<>>, Catalog}
    /\ favorites \in SeqsUpTo(InteractionIds, MaxFav)
    /\ recentlyViewed \in SeqsUpTo(InteractionIds, MaxViewed)
    /\ lastSearch \in BOOLEAN
    /\ topN \in 1..MaxTopN
    /\ envRetries = 0
    /\ debugMode \in BOOLEAN
    /\ client = "rec"
    /\ pc = "idle"
    /\ ctx = "none"
    /\ LocalsIdle
    /\ NothingYet

Next ==
    \/ GetRecommendations
    \/ \E o \in OutcomesFor(ctx) : \E recs \in ResponsesFor(ctx, o) :
          CallAiServiceSettles(o, recs)
    \/ CallAiServiceWakes

Spec == Init /\ [][Next]_vars

(***************************************************************************)
(* Retry runs: one call of either client against a service whose every     *)
(* attempt can come to any of the outcomes.                                *)
(***************************************************************************)
InitRetry ==
    /\ listings = Catalog
    /\ favorites = <<>>
    /\ recentlyViewed = <<>>
    /\ lastSearch = FALSE
    /\ topN = DefaultTopN
    /\ envRetries \in 0..MaxEnvRetries
    /\ debugMode = FALSE
    /\ client \in {"rec", "price"}
    /\ pc = "idle"
    /\ ctx = "standalone"
    /\ LocalsIdle
    /\ NothingYet

NextRetry ==
    \/ CallAiService
    \/ \E o \in OutcomesFor(ctx) : \E recs \in ResponsesFor(ctx, o) :
          CallAiServiceSettles(o, recs)
    \/ CallAiServiceWakes
    \/ FetchWithRetry
    \/ \E o \in Outcomes : FetchWithRetrySettles(o, NoStatus)
    \/ FetchWithRetryWakes

SpecRetry == InitRetry /\ [][NextRetry]_vars

(***************************************************************************)
(* Properties of the recommendation request (Spec).                        *)
(***************************************************************************)
FallbackCalls == {"lastsearch", "coldstart"}

\* getRecommendations is over: it has replied, or it has thrown past recommend
RequestOver == pc \in {"responded", "failed"}

\* recommend rejected: a fallback call of it threw
RecommendRejected == thrown.type \in {"raw", "exhausted"}

FallbackCallCount ==
    Cardinality({i \in 1..Len(callLog) : callLog[i] \in FallbackCalls})

\* C2: with no favorites, no recently viewed ids and no lastSearch, the
\* request is answered at once with the empty list, whatever the catalog, and
\* no request is ever sent to the scoring service.
C2_NoSignalEmptyResult ==
    (Len(favorites) = 0 /\ Len(recentlyViewed) = 0 /\ ~lastSearch)
        => /\ callLog = <<>>
           /\ pc \in {"idle", "responded"}
           /\ pc = "responded" => (response = <<>> /\ recommendResult = <<>>)

\* A signal-less request over the six-listing catalog was answered with [].
C2_Witness ==
    /\ pc = "responded"
    /\ Len(favorites) = 0 /\ Len(recentlyViewed) = 0 /\ ~lastSearch
    /\ Len(listings) = 6
    /\ path = "no_signal"
    /\ response = <<>>
    /\ callLog = <<>>

\* C3: the merge result is what recommend returns whenever the merge yields a
\* candidate; the last-search call is made only when the merge yielded nothing
\* and lastSearch exists, the cold-start call only when the merge yielded
\* nothing and lastSearch is absent; at most one fallback call is made, it is
\* the last call of the request, and what it returns is returned unfiltered.
C3_FallbackOrdering ==
    LET merged == RoundRobinMerge(collectedRecsGroups)
    IN  /\ (RequestOver /\ Len(merged) > 0)
              => (path = "fused" /\ recommendResult = Slice0(merged, topN)
                  /\ FallbackCallCount = 0)
        /\ path = "fused" => Len(merged) > 0
        /\ (\E i \in 1..Len(callLog) : callLog[i] = "lastsearch")
              => (Len(merged) = 0 /\ lastSearch)
        /\ (\E i \in 1..Len(callLog) : callLog[i] = "coldstart")
              => (Len(merged) = 0 /\ ~lastSearch)
        /\ FallbackCallCount <= 1
        /\ \A i \in 1..Len(callLog) :
              callLog[i] \in FallbackCalls => i = Len(callLog)
        /\ path \in FallbackCalls => recommendResult = fallbackRaw

\* Both interactions were queried and yielded no surviving candidate; the one
\* last-search call then answered with the favorite itself, which was
\* returned as it came.
C3_Witness ==
    /\ pc = "responded"
    /\ path = "lastsearch"
    /\ callLog = <<"interaction", "interaction", "lastsearch">>
    /\ collectedRecsGroups = <<>>
    /\ favorites = <<1>>
    /\ recommendResult = <<Rec(1, 8500)>>

(***************************************************************************)
(* Properties of the retrying clients (SpecRetry).                         *)
(***************************************************************************)
Finished == pc \in {"returned", "threw"}

\* AI_REQUEST_RETRIES as the running client reads it
ConfiguredRetries ==
    IF client = "rec" THEN RecRetries(envRetries) ELSE PriceRetries(envRetries)

\* the conditions the design lists as retriable: network failure,
\* cancellation/timeout, HTTP 503, absent JSON keys
ListedRetriable == {"abort", "ECONNREFUSED", "ENOTFOUND", "http503", "invalid_payload"}

\* HTTP 4xx/5xx other than 503
OtherHttpErrors == {"http404", "http504"}

\* what callAiService goes on after: an abort, or an error whose message
\* names ECONNRESET/ECONNREFUSED or contains "timeout"
RetriedByRec == {"abort", "ECONNREFUSED", "http504"}

\* the listed conditions that make an attempt of fetchWithRetry throw: a
\* network failure, a timeout abort, an HTTP 503
RetriedByPrice == {"abort", "ECONNREFUSED", "ENOTFOUND", "http503"}

RetriedByClient == IF client = "rec" THEN RetriedByRec ELSE RetriedByPrice

AllAttemptsIn(S) == \A i \in 1..Len(outcomes) : outcomes[i] \in S

\* C7 as stated: when every attempt fails with a retriable condition, the
\* client makes exactly AI_REQUEST_RETRIES attempts and then fails with an
\* error carrying the last error and the number of attempts made.
C7_ExactlyMaxRetriesAttempts ==
    (pc = "threw" /\ AllAttemptsIn(ListedRetriable))
        => /\ Len(outcomes) = ConfiguredRetries
           /\ thrown.type = "exhausted"
           /\ thrown.cause = outcomes[Len(outcomes)]
           /\ thrown.attempts = Len(outcomes)

\* C7 amended: when every attempt fails with a condition the client retries
\* (fetchWithRetry: network failure, timeout, HTTP 503; callAiService: a
\* timeout abort or an error whose message names ECONNRESET/ECONNREFUSED or
\* contains "timeout"), fetchWithRetry makes exactly AI_REQUEST_RETRIES
\* attempts and callAiService exactly AI_REQUEST_RETRIES + 1; the call then
\* fails with an error carrying the last error and the number of attempts
\* made.
C7_AttemptsOnExhaustion ==
    (pc = "threw" /\ AllAttemptsIn(RetriedByClient))
        => /\ client = "price" => Len(outcomes) = PriceRetries(envRetries)
           /\ client = "rec" => Len(outcomes) = RecRetries(envRetries) + 1
           /\ thrown.type = "exhausted"
           /\ thrown.cause = outcomes[Len(outcomes)]
           /\ thrown.attempts = Len(outcomes)

\* callAiService with AI_REQUEST_RETRIES unset (2): three timeouts, then the
\* error naming 3 attempts.
C7_Witness ==
    /\ pc = "threw"
    /\ client = "rec"
    /\ envRetries = 0
    /\ debugMode = FALSE
    /\ outcomes = <<"abort", "abort", "abort">>
    /\ thrown = [type |-> "exhausted", cause |-> "abort", attempts |-> 3]

\* C8 as stated: in both clients, while the attempts so far each failed with
\* a listed retriable condition and retries remain, the call goes on to
\* another attempt; and a call that returns returns a success result after
\* exactly as many retries as attempts failed.
C8_ListedConditionsRetried ==
    /\ (Len(outcomes) >= 1 /\ Len(outcomes) < ConfiguredRetries
        /\ AllAttemptsIn(ListedRetriable))
          => pc \in {"sleep", "request"}
    /\ pc = "returned"
          => (callReturn = "ok" /\ Len(sleeps) = Len(outcomes) - 1)

\* C8 amended: in fetchWithRetry, while attempts remain, an attempt that
\* fails with a network failure, a timeout or an HTTP 503 is followed by
\* another attempt, and the first 2xx response is returned after exactly as
\* many retries as attempts failed; the body is not read, so a 2xx response
\* lacking the expected keys is returned, not retried.  In callAiService,
\* while attempts remain, an attempt that fails with a timeout abort or an
\* error whose message names ECONNRESET/ECONNREFUSED or contains "timeout" is
\* followed by another attempt, and the first success is returned after
\* exactly as many retries as attempts failed; a failure whose message has
\* none of these (an HTTP 503, a payload without the expected keys, a DNS
\* failure) ends the call at once with that very error.
C8_RetriedThenSuccess ==
    /\ (Len(outcomes) >= 1 /\ AllAttemptsIn(RetriedByClient)
        /\ Len(outcomes) < (IF client = "rec" THEN RecRetries(envRetries) + 1
                                               ELSE PriceRetries(envRetries)))
          => pc \in {"sleep", "request"}
    /\ pc = "returned"
          => /\ Len(sleeps) = Len(outcomes) - 1
             /\ callReturn = outcomes[Len(outcomes)]
             /\ client = "rec" => callReturn = "ok"
             /\ client = "price" => callReturn \in {"ok", "invalid_payload"}
    /\ (client = "rec" /\ Len(outcomes) >= 1
        /\ outcomes[Len(outcomes)] \in {"ENOTFOUND", "http503", "invalid_payload"})
          => (pc = "threw"
              /\ thrown = [type |-> "raw", cause |-> outcomes[Len(outcomes)],
                           attempts |-> 0])

\* callAiService: a timeout, then a refused connection, then success: the
\* call returned after exactly 2 retries.
C8_Witness ==
    /\ pc = "returned"
    /\ client = "rec"
    /\ outcomes = <<"abort", "ECONNREFUSED", "ok">>
    /\ Len(sleeps) = 2
    /\ callReturn = "ok"

\* C9: an HTTP 4xx/5xx response other than 503 ends the call in failure at
\* that attempt: no backoff sleep follows it and no further request is sent.
C9_OtherHttpErrorsNotRetried ==
    \A i \in 1..Len(outcomes) :
        outcomes[i] \in OtherHttpErrors
            => (i = Len(outcomes) /\ pc = "threw" /\ Len(sleeps) = i - 1)

\* C10: after failed attempt n (0-indexed) the client sleeps
\* min(2^n * base, cap) for its fixed base and cap, only when another attempt
\* follows: a finished call has slept once less than it attempted.
C10_BackoffSchedule ==
    /\ client = "price"
          => \A n \in 1..Len(sleeps) :
                sleeps[n] = Min(Pow2(n - 1) * PriceBackoffBase, PriceBackoffCap)
    /\ client = "rec"
          => \E base \in {RecBackoffBase, 2 * RecBackoffBase} :
                \A n \in 1..Len(sleeps) : sleeps[n] = Pow2(n - 1) * base
    /\ Finished => Len(sleeps) = Len(outcomes) - 1

(***************************************************************************)
(* Collection runs: recommend over longer interaction lists, against a     *)
(* service whose every attempt succeeds, times out or answers 404.         *)
(***************************************************************************)
MaxCollectLen == 2   \* collection runs: ids in favorites, and in recentlyViewed

CollectOutcomes == {"ok", "abort", "http404"}

CollectResponses(o) == IF o = "ok" THEN {<<Rec(4, 8500)>>} ELSE {<<>>}

InitCollect ==
    /\ listings = Catalog
    /\ favorites \in SeqsUpTo(InteractionIds, MaxCollectLen)
    /\ recentlyViewed \in SeqsUpTo(InteractionIds, MaxCollectLen)
    /\ lastSearch = TRUE
    /\ topN = DefaultTopN
    /\ envRetries = 1
    /\ debugMode \in BOOLEAN
    /\ client = "rec"
    /\ pc = "idle"
    /\ ctx = "none"
    /\ LocalsIdle
    /\ NothingYet
    /\ thrown = NoError
    /\ callReturn = "none"

NextCollect ==
    \/ GetRecommendations
    \/ \E o \in CollectOutcomes : \E recs \in CollectResponses(o) :
          CallAiServiceSettles(o, recs)
    \/ CallAiServiceWakes

SpecCollect == InitCollect /\ [][NextCollect]_vars

\* the interaction whose scoring call has not settled yet
InteractionInFlight == ctx = "interaction" /\ pc \in {"request", "sleep"}

\* the ids among the first k of favorites followed by recentlyViewed that
\* have a feature vector, in that order
QueriedUpTo(k) ==
    LET all == favorites \o recentlyViewed
        Featured(id) == \E i \in 1..Len(listings) : listings[i].id = id
    IN  SelectSeq(SubSeq(all, 1, k), Featured)

CallsOfKind(kinds) == {i \in 1..Len(callLog) : callLog[i] \in kinds}

\* C11: the interactions queried so far are the favorites, in list order,
\* followed by the recently viewed ids, in list order, up to the one being
\* queried; every interaction before the last queried one has had its call
\* settled, the last one is unsettled exactly while its request, a retry of
\* it or a backoff sleep of it is pending, and a fallback call is started
\* only when every interaction's call has settled: at most one scoring call
\* of the request is pending at any time.
C11_SequentialCollection ==
    LET all == favorites \o recentlyViewed
        k == IF InteractionInFlight THEN srcIdx
             ELSE IF pc = "idle" THEN 0 ELSE Len(all)
        pending == {i \in 1..Len(queryLog) : ~queryLog[i].done}
    IN  /\ [i \in 1..Len(queryLog) |-> queryLog[i].src] = QueriedUpTo(k)
        /\ InteractionInFlight => all[srcIdx] = queryLog[Len(queryLog)].src
        /\ pending = IF InteractionInFlight THEN {Len(queryLog)} ELSE {}
        /\ Cardinality(CallsOfKind({"interaction"})) = Len(queryLog)
        /\ \A i \in CallsOfKind(FallbackCalls) :
              /\ i = Len(callLog)
              /\ pending = {}
              /\ Len(queryLog) = Len(QueriedUpTo(Len(all)))
        /\ Cardinality(pending)
             + (IF ctx \in FallbackCalls /\ pc \in {"request", "sleep"}
                THEN 1 ELSE 0) <= 1

\* favorites 3, 1 and recently viewed 1: listing 3 and favorite 1 have been
\* queried and settled, and the call for the recently viewed 1 is in its
\* backoff sleep after a timeout.
C11_Witness ==
    /\ favorites = <<3, 1>>
    /\ recentlyViewed = <<1>>
    /\ queryLog = <<[src |-> 3, done |-> TRUE], [src |-> 1, done |-> TRUE],
                    [src |-> 1, done |-> FALSE]>>
    /\ pc = "sleep"
    /\ outcomes = <<"abort">>

(***************************************************************************)
(* doFetch: decoding the JSON body of a 2xx response.  A JSON value is a   *)
(* record of its type tag t, its text s (strings) and its number n; an     *)
(* array element also carries the values of its id and score properties    *)
(* (undefined when it has none).  Scores are 10000 times the number.       *)
(***************************************************************************)
JsUndefined == [t |-> "undefined", s |-> "", n |-> 0]
JsNull == [t |-> "null", s |-> "", n |-> 0]
JsString(x) == [t |-> "string", s |-> x, n |-> 0]
JsNumber(k) == [t |-> "number", s |-> "", n |-> k]

StringItem(x) == [t |-> "string", s |-> x, n |-> 0,
                  id |-> JsUndefined, score |-> JsUndefined]
NumberItem(k) == [t |-> "number", s |-> "", n |-> k,
                  id |-> JsUndefined, score |-> JsUndefined]
NullItem == [t |-> "null", s |-> "", n |-> 0,
             id |-> JsUndefined, score |-> JsUndefined]
ObjectItem(id, score) == [t |-> "object", s |-> "", n |-> 0,
                          id |-> id, score |-> score]

\* the value itself, without its properties
ValueOf(e) == [t |-> e.t, s |-> e.s, n |-> e.n]

\* typeof v
TypeOf(v) == IF v.t = "null" THEN "object" ELSE v.t

\* the truthiness `recs[0].id` is tested for
Truthy(v) ==
    CASE v.t = "string" -> v.s # ""
      [] v.t = "number" -> v.n # 0
      [] v.t = "object" -> TRUE
      [] OTHER -> FALSE

\* decimal digits of a natural number
RECURSIVE NumStr(_)
NumStr(k) ==
    LET digit == <<"0", "1", "2", "3", "4", "5", "6", "7", "8", "9">>
    IN  IF k < 10 THEN digit[k + 1] ELSE NumStr(k \div 10) \o digit[(k % 10) + 1]

\* String(v) of JavaScript
JsToString(v) ==
    CASE v.t = "string" -> v.s
      [] v.t = "number" -> NumStr(v.n)
      [] v.t = "undefined" -> "undefined"
      [] v.t = "null" -> "null"
      [] OTHER -> "[object Object]"

DecodeThrew(e) == [kind |-> "threw", error |-> e, recs |-> <<>>]
DecodeReturned(recs) == [kind |-> "returned", error |-> "none", recs |-> recs]

\* recs.map((id) => ({ id, score: null }))
FromStrings(items) ==
    [i \in 1..Len(items) |-> [id |-> ValueOf(items[i]), score |-> JsNull]]

\* recs.map((r) => ({ id: String(r.id), score: number or null }))
FromObjects(items) ==
    [i \in 1..Len(items) |->
        [id |-> JsString(JsToString(items[i].id)),
         score |-> IF items[i].score.t = "number" THEN items[i].score ELSE JsNull]]

\* what doFetch makes of the parsed body; reading a property of null throws
DecodeRecommendations(p) ==
    IF p.kind # "array" THEN DecodeThrew("invalid_payload")
    ELSE IF Len(p.items) = 0 THEN DecodeReturned(<<>>)
    ELSE IF TypeOf(p.items[1]) = "string" THEN DecodeReturned(FromStrings(p.items))
    ELSE IF TypeOf(p.items[1]) = "object"
    THEN IF p.items[1].t = "null" THEN DecodeThrew("TypeError")
         ELSE IF ~Truthy(p.items[1].id) THEN DecodeThrew("unknown_format")
         ELSE IF \E i \in 1..Len(p.items) : p.items[i].t = "null"
              THEN DecodeThrew("TypeError")
              ELSE DecodeReturned(FromObjects(p.items))
    ELSE DecodeThrew("unknown_format")

\* the array elements a body is drawn from
DecodeItems ==
    {StringItem("a"), StringItem("b"),
     ObjectItem(JsString("b"), JsNumber(9000)),
     ObjectItem(JsString("c"), JsUndefined),
     ObjectItem(JsNumber(17), JsString("high")),
     ObjectItem(JsUndefined, JsNumber(9000)),
     NumberItem(17), NullItem}

\* data is null, has no recommendations, has one that is no array, or has an array
DecodePayloads ==
    {[kind |-> k, items |-> <<>>] : k \in {"null", "absent", "notArray"}}
      \cup {[kind |-> "array", items |-> it] : it \in SeqsUpTo(DecodeItems, MaxDecodeLen)}

InitDecode ==
    /\ listings = Catalog
    /\ favorites = <<>>
    /\ recentlyViewed = <<>>
    /\ lastSearch = FALSE
    /\ topN = DefaultTopN
    /\ envRetries = 0
    /\ debugMode = FALSE
    /\ client = "rec"
    /\ pc = "received"
    /\ ctx = "decode"
    /\ LocalsIdle
    /\ srcIdx = 0
    /\ queryLog = <<>>
    /\ collectedRecsGroups = <<>>
    /\ groupSources = <<>>
    /\ rawRecs = <<>>
    /\ callLog = <<>>
    /\ fallbackRaw = <<>>
    /\ recommendResult = <<>>
    /\ path = "none"
    /\ response = <<>>
    /\ thrown = NoError
    /\ callReturn = "none"
    /\ payload \in DecodePayloads
    /\ attemptsSent = 0
    /\ decoded = NotDecoded
    /\ op = "none"
    /\ body = NoBody
    /\ now = 0
    /\ status = NoStatus
    /\ opLog = <<>>
    /\ sent = <<>>
    /\ httpResponse = NoResponse
    /\ checkResult = NoCheck
    /\ runs = <<>>
    /\ values = <<>>
    /\ search = NoSearch
    /\ computed = <<>>
    /\ reqs = <<>>
    /\ dbLog = <<>>

\* const data = await res.json(); ...; return recs.map(...)
DoFetchDecode ==
    /\ pc = "received"
    /\ ctx = "decode"
    /\ pc' = "decoded"
    /\ decoded' = DecodeRecommendations(payload)
    /\ UNCHANGED <<inputVars, ctx, srcIdx, queryLog, collectedRecsGroups,
                   groupSources, rawRecs, callLog, fallbackRaw, recommendResult,
                   path, response, attempt, lastErr, outcomes, sleeps, thrown,
                   callReturn, payload, op, body, now, status, opLog, sent,
                   httpResponse, checkResult, runs, values, search, computed,
                   reqs, dbLog, attemptsSent>>

NextDecode == DoFetchDecode

SpecDecode == InitDecode /\ [][NextDecode]_vars

\* an array of bare string ids only; an array of objects carrying an id only
AllStringIds(items) == \A i \in 1..Len(items) : items[i].t = "string"
AllIdScoreObjects(items) ==
    \A i \in 1..Len(items) : items[i].t = "object" /\ Truthy(items[i].id)

\* C12: a recommendations array of only bare string ids or only {id, score}
\* objects is returned as {id, score} pairs whose ids are strings and whose
\* scores are numbers or null; every other body (no array, elements of
\* another shape, strings mixed with objects) makes the call fail.
C12_DecodeOrFail ==
    pc = "decoded" =>
        IF payload.kind = "array"
           /\ (AllStringIds(payload.items) \/ AllIdScoreObjects(payload.items))
        THEN /\ decoded.kind = "returned"
             /\ Len(decoded.recs) = Len(payload.items)
             /\ \A i \in 1..Len(decoded.recs) :
                   /\ decoded.recs[i].id.t = "string"
                   /\ decoded.recs[i].id.s =
                         IF payload.items[i].t = "string" THEN payload.items[i].s
                         ELSE JsToString(payload.items[i].id)
                   /\ decoded.recs[i].score.t \in {"number", "null"}
        ELSE decoded.kind = "threw"

(***************************************************************************)
(* Price runs: one request to a price-side handler, over a collection of   *)
(* e eligible and k ineligible listings, against a service whose every     *)
(* attempt can come to any of PriceOutcomes and whose /model-status can    *)
(* report any of StatusReports.                                            *)
(***************************************************************************)
PriceOutcomes == {"ok", "invalid_payload", "ECONNREFUSED", "http404"}

TrainingCounts == {0, 1, 100}

StatusReports ==
    [source : {"service"}, is_trained : BOOLEAN, has_count : {TRUE},
     training_count : TrainingCounts]

\* what a 2xx answer of /model-status can carry
StatusReplies(c, o) ==
    IF c # "status" THEN {NoStatus}
    ELSE IF o = "ok" THEN StatusReports
    ELSE {[source |-> "service", is_trained |-> FALSE, has_count |-> FALSE,
           training_count |-> 0]}

FieldCases == {FAbsent, FNull, FNum(2)}

PredictBodies ==
    {[NoBody EXCEPT !.areaSqFt = a, !.bedrooms = b, !.bathrooms = c,
                    !.type = ty, !.createdAt = cr]
        : a \in {FAbsent, FNull, FNum(1200)}, b \in FieldCases,
          c \in FieldCases, ty \in {FAbsent, FNull, FStr("sale")},
          cr \in {FAbsent, FNum(1)}}

DbShapes ==
    {<<0, 0>>, <<4, 1>>, <<4, 3>>, <<5, 0>>, <<5, 2>>, <<6, 1>>, <<9, 0>>,
     <<10, 1>>, <<104, 1>>, <<105, 0>>}

Dbs(o) ==
    IF o = "predict" THEN {Db(4, 1), Db(5, 1)}
    ELSE {Db(sh[1], sh[2]) : sh \in DbShapes}

\* the clock readings: a property created at 1 turns one year old at the last
NowValues == {YearQuarterDays - 1, YearQuarterDays, YearQuarterDays + 1}

InitPrice ==
    /\ op \in {"predict", "train", "create", "check"}
    /\ listings \in Dbs(op)
    /\ body \in IF op = "predict" THEN PredictBodies ELSE {NoBody}
    /\ now \in NowValues
    /\ envRetries \in {1, 2}
    /\ debugMode = FALSE
    /\ client = "price"
    /\ favorites = <<>>
    /\ recentlyViewed = <<>>
    /\ lastSearch = FALSE
    /\ topN = DefaultTopN
    /\ pc = "idle"
    /\ ctx = "none"
    /\ LocalsIdle
    /\ srcIdx = 0
    /\ queryLog = <<>>
    /\ collectedRecsGroups = <<>>
    /\ groupSources = <<>>
    /\ rawRecs = <<>>
    /\ callLog = <<>>
    /\ fallbackRaw = <<>>
    /\ recommendResult = <<>>
    /\ path = "none"
    /\ response = <<>>
    /\ thrown = NoError
    /\ callReturn = "none"
    /\ DecodeIdle
    /\ attemptsSent = 0
    /\ status = NoStatus
    /\ opLog = <<>>
    /\ sent = <<>>
    /\ httpResponse = NoResponse
    /\ checkResult = NoCheck
    /\ runs = <<>>
    /\ values = <<>>
    /\ search = NoSearch
    /\ computed = <<>>
    /\ reqs = <<>>
    /\ dbLog = <<>>

NextPrice ==
    \/ PredictPrice
    \/ TrainModel
    \/ CheckAndRetainIfNeeded
    \/ \E good \in BOOLEAN : \E created \in BOOLEAN : CreateListing(good, created)
    \/ \E o \in PriceOutcomes : \E reply \in StatusReplies(ctx, o) :
          FetchWithRetrySettles(o, reply)
    \/ FetchWithRetryWakes
    \/ CountDocumentsSettles
    \/ ListingFindSettles
    \/ \E w \in WriteOps : \E id \in WriteTargets(w, listings) :
          \E patch \in UpdateBodies : ConcurrentWrite(w, id, patch)
    \/ \E t \in NowValues : RepeatPredict(t)

SpecPrice == InitPrice /\ [][NextPrice]_vars

(***************************************************************************)
(* Properties of the price-side handlers (SpecPrice).                      *)
(***************************************************************************)
\* the number of entries of log that are in set
CountIn(log, set) == Cardinality({i \in 1..Len(log) : log[i] \in set})

Endpoints(s) == [i \in 1..Len(s) |-> s[i].endpoint]

PredictCalls == CountIn(Endpoints(sent), {"predict1", "predict2"})

TrainInvocations == CountIn(opLog, {"trainModel"})

StatusQueries == CountIn(opLog, {"checkModelStatus"})

PredictAnswered == op = "predict" /\ pc = "responded"

\* the first prediction call of this execution failed
FirstPredictFailed == op = "predict" /\ thrown.type = "exhausted"

\* C13 as claimed: after a failed first prediction call the status is queried;
\* an untrained status leads to exactly one trainModel call and then exactly
\* one more prediction call, a trained status to a rethrow of the original
\* failure without training or second prediction call; trainModel is invoked
\* at most once and the prediction call made at most twice.
C13_RecoveryAsClaimed ==
    /\ op = "predict" => (TrainInvocations <= 1 /\ PredictCalls <= 2)
    /\ (PredictAnswered /\ FirstPredictFailed)
          => /\ StatusQueries = 1
             /\ ~status.is_trained
                   => (TrainInvocations = 1 /\ PredictCalls = 2)
             /\ status.is_trained
                   => /\ TrainInvocations = 0
                      /\ PredictCalls = 1
                      /\ httpResponse.logged = Msg("Price prediction failed")
                                \o FetchFailureMessage(thrown)

\* C13: as claimed, except that the second prediction call is issued only
\* when the training succeeded: when trainModel throws (too few eligible
\* listings, training request failed) predictPrice fails with the training
\* error and makes no second prediction call.  A status query that itself
\* fails counts as an untrained status.  The calls are made in the order
\* predict, model-status, train, predict.
C13_RecoveryProtocol ==
    /\ op = "predict" => (TrainInvocations <= 1 /\ PredictCalls <= 2)
    /\ (op = "predict" /\ StatusQueries > 0) => FirstPredictFailed
    /\ (op = "predict" /\ TrainInvocations > 0)
          => (status.source # "none" /\ ~status.is_trained)
    /\ (op = "predict" /\ PredictCalls = 2)
          => /\ CountIn(opLog, {"trainModel returned"}) = 1
             /\ Endpoints(sent) = <<"predict1", "status", "train", "predict2">>
             /\ sent[4].features = sent[1].features
    /\ (PredictAnswered /\ FirstPredictFailed)
          => /\ StatusQueries = 1
             /\ ~status.is_trained
                   => /\ TrainInvocations = 1
                      /\ CountIn(opLog, {"trainModel returned"}) = 1
                            => PredictCalls = 2
                      /\ CountIn(opLog, {"trainModel threw"}) = 1
                            => /\ PredictCalls = 1
                               /\ httpResponse.code = 503
                               /\ httpResponse.logged[2].text
                                     = "Failed to train price model"
             /\ status.is_trained
                   => /\ TrainInvocations = 0
                      /\ PredictCalls = 1
                      /\ httpResponse.code = 503
                      /\ httpResponse.logged = Msg("Price prediction failed")
                                \o FetchFailureMessage(thrown)

\* An untrained status was reported after a failed first prediction; the
\* training succeeded and the second prediction call was answered.
C13_Witness ==
    /\ PredictAnswered
    /\ FirstPredictFailed
    /\ status.source = "service" /\ ~status.is_trained
    /\ opLog = <<"predictPrice", "checkModelStatus", "trainModel",
                 "trainModel returned">>
    /\ Endpoints(sent) = <<"predict1", "status", "train", "predict2">>
    /\ httpResponse.code = 200

\* The training failed for lack of eligible listings: no second prediction.
C13_TrainingFailedWitness ==
    /\ PredictAnswered
    /\ FirstPredictFailed
    /\ ~status.is_trained
    /\ opLog = <<"predictPrice", "checkModelStatus", "trainModel",
                 "trainModel threw">>
    /\ Endpoints(sent) = <<"predict1", "status">>
    /\ httpResponse.code = 503

\* checkAndRetainIfNeeded has resolved and the service had reported a trained model
CheckDoneOnTrainedModel ==
    /\ op \in {"check", "create"}
    /\ checkResult.done
    /\ status.source = "service"
    /\ status.is_trained

\* what the reads of the collection resolved to, in order
ReadsOf(name) == SelectSeq(dbLog, LAMBDA e : e.op = name)

\* currentCount: what Listing.countDocuments resolved to in this check
CountRead == ReadsOf("countDocuments")[1].n

\* C14: when the status reports a trained model, checkAndRetainIfNeeded
\* invokes trainModel if and only if currentCount - training_count >= 5, for
\* every reported training_count >= 0, 0 included.
C14_RetrainThreshold ==
    (CheckDoneOnTrainedModel /\ status.has_count)
        => /\ Len(ReadsOf("countDocuments")) = 1
           /\ TrainInvocations = 1
                 <=> CountRead - status.training_count >= RetrainThreshold

\* The part of C14 the code keeps: the rule for a reported count other than 0
\* (100 and 104 eligible listings: no retrain; 100 and 105: one).
C14_RetrainThresholdNonZero ==
    (CheckDoneOnTrainedModel /\ status.has_count /\ status.training_count # 0)
        => /\ Len(ReadsOf("countDocuments")) = 1
           /\ TrainInvocations = 1
                 <=> CountRead - status.training_count >= RetrainThreshold

TrainRequests == {i \in 1..Len(sent) : sent[i].endpoint = "train"}

\* the listings with positive regularPrice, bedrooms and bathrooms, in the
\* order of the collection
PositiveListings ==
    SelectSeq(listings, LAMBDA l : /\ l.regularPrice > 0
                                   /\ l.bedrooms > 0
                                   /\ l.bathrooms > 0)

TrainModelInvoked == CountIn(opLog, {"trainModel"}) > 0

\* C15: a trainModel call over fewer than 5 eligible listings fails with the
\* insufficient-data error and sends nothing to the training endpoint; over 5
\* or more it submits exactly one batch, with one row per eligible listing.
\* (Until Listing.find resolves nothing is sent; no write reaches the
\* collection after it, so listings is what it read.)
C15_TrainModelBatch ==
    LET found == PositiveListings
        n     == Len(found)
    IN  /\ (TrainModelInvoked /\ pc = "find") => TrainRequests = {}
        /\ (TrainModelInvoked /\ pc # "find")
            => /\ Len(ReadsOf("find")) = 1
               /\ ReadsOf("find")[1].n = n
               /\ IF n < 5
                  THEN /\ TrainRequests = {}
                       /\ CountIn(opLog, {"trainModel threw"}) = 1
                       /\ op = "train"
                             => /\ pc = "responded"
                                /\ httpResponse.code = 503
                                /\ httpResponse.logged
                                      = Msg("Failed to train price model")
                                        \o Msg("Insufficient data: need at least 5 listings")
                  ELSE /\ Cardinality(TrainRequests) = 1
                       /\ \A i \in TrainRequests :
                             /\ Len(sent[i].rows) = n
                             /\ \A k \in 1..n :
                                   sent[i].rows[k].price = found[k].regularPrice

\* The training handler submitted one batch of five rows from a collection of
\* five eligible and two ineligible listings.
C15_Witness ==
    /\ op = "train"
    /\ Len(listings) = 7
    /\ Len(PositiveListings) = 5
    /\ Cardinality(TrainRequests) = 1
    /\ Len(sent[1].rows) = 5
    /\ pc = "responded"
    /\ httpResponse.code = 200

\* The training handler refused a collection with four eligible listings.
C15_InsufficientWitness ==
    /\ op = "train"
    /\ Len(PositiveListings) = 4
    /\ Len(listings) = 7
    /\ pc = "responded"
    /\ sent = <<>>
    /\ httpResponse.code = 503

\* the required properties of the body that are absent or null
MissingRequired ==
    {f \in {"areaSqFt", "bedrooms", "bathrooms", "type"} :
        \/ (f = "areaSqFt" /\ body.areaSqFt.p # "value")
        \/ (f = "bedrooms" /\ body.bedrooms.p # "value")
        \/ (f = "bathrooms" /\ body.bathrooms.p # "value")
        \/ (f = "type" /\ body.type.p # "value")}

\* the body has at least one own property, so the handler calls the service
BodyHasKeys ==
    \E f \in {body.areaSqFt, body.bedrooms, body.bathrooms, body.type,
              body.createdAt, body.city} : f.p # "absent"

\* C16: when one of areaSqFt, bedrooms, bathrooms, type is absent or null,
\* predictPrice fails with a missing-field error that names such a field and
\* no outbound request (predict, model-status, train) is made; the service is
\* not even called when the body has no property at all, and that request is
\* refused without any outbound request too.
C16_ValidationBeforeIO ==
    (op = "predict" /\ MissingRequired # {})
        => /\ sent = <<>>
           /\ pc \in {"idle", "responded"}
           /\ CountIn(opLog, {"checkModelStatus", "trainModel"}) = 0
           /\ pc = "responded"
                 => /\ httpResponse.code = 400
                    /\ ~httpResponse.success
                    /\ BodyHasKeys
                          => /\ opLog = <<"predictPrice">>
                             /\ Len(httpResponse.message) = 2
                             /\ httpResponse.message[1].text = "Price prediction failed"
                             /\ httpResponse.message[2].text = "Missing required field"
                             /\ httpResponse.message[2].field \in MissingRequired
                             /\ httpResponse.logged = httpResponse.message
                    /\ ~BodyHasKeys
                          => /\ opLog = <<>>
                             /\ httpResponse.message = Msg("Property data is required")

\* A body with areaSqFt and bedrooms but a null bathrooms was refused, the
\* error naming bathrooms, with nothing sent.
C16_Witness ==
    /\ op = "predict"
    /\ pc = "responded"
    /\ body.areaSqFt.p = "value" /\ body.bedrooms.p = "value"
    /\ body.bathrooms.p = "null"
    /\ body.type.p = "value"
    /\ httpResponse.code = 400
    /\ httpResponse.message[2].field = "bathrooms"
    /\ sent = <<>>

\* createListing stored the listing and started the retrain check
ListingCreated == op = "create" /\ CountIn(opLog, {"checkModelStatus"}) = 1

\* the 201 answer carrying the listing Listing.create stored
CreatedResponse ==
    /\ httpResponse.code = 201
    /\ httpResponse.success
    /\ httpResponse.message = <<>>
    /\ Len(ReadsOf("Listing.create")) = 1
    /\ httpResponse.listing = ReadsOf("Listing.create")[1].n
    /\ \/ FindListing(listings, httpResponse.listing) # 0
       \/ WritesLanded(dbLog) > 0

\* C17: once createListing has stored the listing, its answer is the 201
\* response with that listing: it is sent in the step that starts the retrain
\* check, while the check's first request is still in flight, and it stays
\* what it is whatever the check comes to (status failure, training failure,
\* success).
C17_BackgroundRetrainIsolation ==
    ListingCreated
        => /\ CreatedResponse
           /\ pc \in {"request", "sleep", "count", "find", "responded"}
           /\ pc = "responded" => checkResult.done

\* The check is still waiting for /model-status and the 201 answer is out.
C17_Witness ==
    /\ ListingCreated
    /\ pc = "request" /\ ctx = "status"
    /\ ~checkResult.done
    /\ CreatedResponse

\* The check ended with a training failure after the 201 answer.
C17_CheckFailedWitness ==
    /\ ListingCreated
    /\ checkResult.done
    /\ Len(checkResult.error) > 0
    /\ CountIn(opLog, {"trainModel threw"}) = 1
    /\ CreatedResponse

(***************************************************************************)
(* Degradation of the recommendation request (Spec).                       *)
(***************************************************************************)
\* RecommendationService.recommend rejected
RecommendFailed == pc = "responded" /\ thrown.type # "none"

\* the creation time of the listing of the catalog with this id
CreatedAtOfId(id) == listings[FindListing(listings, id)].createdAt

\* C18: with a non-empty catalog and at least one signal, whenever recommend
\* fails the request is answered by the recency fallback, the success reply
\* of the handler's catch block: listings of the catalog, as many as topN
\* allows, newest first, none of the omitted ones newer than an included one;
\* and that reply is given in no other case.
C18_GracefulDegradation ==
    /\ RecommendFailed
          => /\ Len(listings) > 0
             /\ ~NoSignal(favorites, recentlyViewed, lastSearch)
             /\ path = "recency"
             /\ Len(response) <= topN
             /\ Len(response) = Min(topN, Len(listings))
             /\ \A i \in 1..Len(response) : FindListing(listings, response[i]) # 0
             /\ \A i, j \in 1..Len(response) :
                   i < j => CreatedAtOfId(response[i]) > CreatedAtOfId(response[j])
             /\ \A k \in 1..Len(listings) :
                   (\A i \in 1..Len(response) : response[i] # listings[k].id)
                      => \A i \in 1..Len(response) :
                            CreatedAtOfId(response[i]) >= listings[k].createdAt
    /\ (pc = "responded" /\ path = "recency") => RecommendFailed

\* Every call failed, the last-search fallback call included, and the two
\* newest listings of the catalog were returned.
C18_Witness ==
    /\ RecommendFailed
    /\ path = "recency"
    /\ topN = 2
    /\ Len(favorites) > 0
    /\ response = <<4, 2>>
    /\ \A i \in 1..Len(callLog) : callLog[i] \in {"interaction", "lastsearch"}
    /\ Len(callLog) >= 2

(***************************************************************************)
(* What the price-side handlers tell the end user (SpecPrice).             *)
(***************************************************************************)
GenericUnavailable == Msg("AI service unavailable. Please try again later.")

\* the handler answered after fetchWithRetry had given up on the service
RemoteFailureAnswered ==
    /\ op \in {"predict", "train"}
    /\ pc = "responded"
    /\ \E i \in 1..Len(httpResponse.logged) :
          httpResponse.logged[i].text = "AI Service request failed after attempts"

\* the message shows neither an attempt count nor the service's error text
HidesInternals(m) ==
    \A i \in 1..Len(m) :
        /\ m[i].attempts = 0
        /\ m[i].text # "AI Service request failed after attempts"
        /\ m[i].text \notin {CauseText(o) : o \in PriceOutcomes}

\* C19: every error response the predictPrice and trainModel handlers send
\* after a remote-service failure carries the generic service-unavailable
\* message, without the attempt count and without the underlying error text.
C19_NoRetryCountLeak ==
    RemoteFailureAnswered
        => /\ httpResponse.code = 503
           /\ httpResponse.message = GenericUnavailable
           /\ HidesInternals(httpResponse.message)

\* The part of C19 the code keeps: the predictPrice handler.
C19_PredictHandlerGeneric ==
    (RemoteFailureAnswered /\ op = "predict")
        => /\ httpResponse.code = 503
           /\ httpResponse.message = GenericUnavailable
           /\ HidesInternals(httpResponse.message)

(***************************************************************************)
(* Two predictPrice calls with the same input (SpecPrice).                 *)
(***************************************************************************)
\* the same body was handled twice and the service, its model trained,
\* answered the first prediction call of each handling
TwoServedCalls ==
    /\ PredictAnswered
    /\ Len(runs) = 1
    /\ runs[1].response.code = 200
    /\ Endpoints(runs[1].sent) = <<"predict1">>
    /\ httpResponse.code = 200
    /\ Endpoints(sent) = <<"predict1">>

SamePayloadAndResult ==
    /\ sent[1].features = runs[1].sent[1].features
    /\ httpResponse.result = runs[1].response.result

\* C20 as claimed: two calls with identical input against a trained,
\* unchanged model send identical features and return identical
\* predicted_price and price_range, for every valid input, one carrying
\* createdAt included.
C20_DeterminismAsClaimed == TwoServedCalls => SamePayloadAndResult

\* whole 365.25-day years from createdAt to the clock reading t
WholeYearsSince(createdAt, t) == (t - createdAt) \div 1461

\* C20: the two calls send identical features and return identical results
\* when the input carries no createdAt, and when it carries one and both calls
\* are made the same whole number of 365.25-day years after it; in every case
\* the two feature payloads agree on everything but property_age_years.
C20_Determinism ==
    TwoServedCalls
        => /\ (\/ body.createdAt.p # "value"
               \/ WholeYearsSince(body.createdAt.n, runs[1].at)
                     = WholeYearsSince(body.createdAt.n, now))
                 => SamePayloadAndResult
           /\ [sent[1].features EXCEPT !.property_age_years = 0]
                 = [runs[1].sent[1].features EXCEPT !.property_age_years = 0]

\* The same body with createdAt was served at two different times within the
\* same year of the property's age, with the same features and result.
C20_Witness ==
    /\ TwoServedCalls
    /\ body.createdAt.p = "value"
    /\ runs[1].at < now
    /\ WholeYearsSince(body.createdAt.n, runs[1].at)
          = WholeYearsSince(body.createdAt.n, now)
    /\ SamePayloadAndResult
    /\ httpResponse.result.predicted_price > 0

\* The two calls straddle the property's first anniversary.
C20_AnniversaryWitness ==
    /\ TwoServedCalls
    /\ runs[1].sent[1].features.property_age_years = 0
    /\ sent[1].features.property_age_years = 1
    /\ httpResponse.result # runs[1].response.result

(***************************************************************************)
(* Normalize runs: both normalize functions applied to one array.          *)
(***************************************************************************)
NormValues == -1..MaxNormValue

\* the state outside the function under study
FunctionRunIdle ==
    /\ favorites = <<>>
    /\ recentlyViewed = <<>>
    /\ lastSearch = FALSE
    /\ topN = DefaultTopN
    /\ envRetries = 0
    /\ debugMode = FALSE
    /\ client = "rec"
    /\ LocalsIdle
    /\ srcIdx = 0
    /\ queryLog = <<>>
    /\ collectedRecsGroups = <<>>
    /\ groupSources = <<>>
    /\ rawRecs = <<>>
    /\ callLog = <<>>
    /\ fallbackRaw = <<>>
    /\ recommendResult = <<>>
    /\ path = "none"
    /\ response = <<>>
    /\ thrown = NoError
    /\ callReturn = "none"
    /\ attemptsSent = 0
    /\ DecodeIdle
    /\ op = "none"
    /\ body = NoBody
    /\ now = 0
    /\ status = NoStatus
    /\ opLog = <<>>
    /\ sent = <<>>
    /\ httpResponse = NoResponse
    /\ checkResult = NoCheck
    /\ runs = <<>>
    /\ reqs = <<>>
    /\ dbLog = <<>>

InitNormalize ==
    /\ FunctionRunIdle
    /\ listings = <<>>
    /\ pc = "idle"
    /\ ctx = "normalize"
    /\ values \in SeqsUpTo(NormValues, MaxNormLen)
    /\ search = NoSearch
    /\ computed = <<>>

\* normalize(values) of either service; values.map leaves values as it is
CallNormalize ==
    /\ pc = "idle"
    /\ ctx = "normalize"
    /\ pc' = "returned"
    /\ computed' = [rec |-> Normalize(values), price |-> PriceNormalize(values)]
    /\ UNCHANGED <<inputVars, ctx, srcIdx, queryLog, collectedRecsGroups,
                   groupSources, rawRecs, callLog, fallbackRaw, recommendResult,
                   path, response, attempt, lastErr, outcomes, sleeps, thrown,
                   callReturn, payload, decoded, op, body, now, status, opLog,
                   sent, httpResponse, checkResult, runs, values, search, reqs, dbLog,
                   attemptsSent>>

NextNormalize == CallNormalize

SpecNormalize == InitNormalize /\ [][NextNormalize]_vars

Normalized == ctx = "normalize" /\ pc = "returned"

\* out is the [0,1] scaling of the array in
ScalesToUnit(in, out) ==
    /\ Len(out) = Len(in)
    /\ \A i \in 1..Len(out) : out[i].d > 0 /\ InUnit(out[i])
    /\ \A i \in 1..Len(in) :
          IF \A j \in 1..Len(in) : in[j] = in[i]
          THEN FracEq(out[i], Frac(1, 2))
          ELSE LET lo == CHOOSE v \in Range(in) : \A w \in Range(in) : v <= w
                   hi == CHOOSE v \in Range(in) : \A w \in Range(in) : v >= w
               IN  /\ FracEq(out[i], Frac(in[i] - lo, hi - lo))
                   /\ in[i] = lo => out[i].n = 0
                   /\ in[i] = hi => out[i].n = out[i].d

\* C22: both normalize functions return an array as long as the input with
\* every value in [0,1]: the empty array for the empty array, all 0.5 when
\* the maximum equals the minimum, and otherwise (v - min)/(max - min), so
\* the minimum goes to 0 and the maximum to 1; [1,2,3] goes to [0, 0.5, 1].
C22_Normalizer ==
    Normalized
        => /\ ScalesToUnit(values, computed.rec)
           /\ ScalesToUnit(values, computed.price)
           /\ values = <<>> => (computed.rec = <<>> /\ computed.price = <<>>)
           /\ values = <<1, 2, 3>>
                 => \A i \in 1..3 : FracEq(computed.rec[i], Frac(i - 1, 2))

\* [1,2,3] was normalised to [0, 0.5, 1] by both functions.
C22_Witness ==
    /\ Normalized
    /\ values = <<1, 2, 3>>
    /\ computed.rec = <<Frac(0, 2), Frac(1, 2), Frac(2, 2)>>
    /\ computed.price = computed.rec

\* An array of equal values went to all 0.5.
C22_ConstantWitness ==
    /\ Normalized
    /\ values = <<2, 2>>
    /\ computed.rec = <<Frac(1, 2), Frac(1, 2)>>

(***************************************************************************)
(* Feature runs: the vectors recommend builds for one batch of listings    *)
(* and one lastSearch object.                                              *)
(***************************************************************************)
FeatureListing(i, rp, beds, baths, area, addr, cty, ty) ==
    [id |-> i, regularPrice |-> rp, discountPrice |-> 0, createdAt |-> 10 * i,
     bedrooms |-> beds, bathrooms |-> baths, areaSqFt |-> area,
     address |-> addr, city |-> cty, type |-> ty]

FeatureListings ==
    { FeatureListing(1, 1000, 2, 1, 800, <<"1 A St", "Denver", "CO">>, "", "Sale"),
      FeatureListing(2, 2000, 3, 2, 0, <<"2 B St", "DENVER", "CO">>, "", "Rent"),
      FeatureListing(3, 1500, 1, 1, 1000, <<"3 C St", "Mumbai", "MH">>, "", "sale"),
      FeatureListing(4, 1000, 2, 2, 900, <<"4 D St", "Mumbai", "MH">>, "Pune", "rent"),
      FeatureListing(5, 3000, 4, 3, 2000, <<"5 E St", "Pune", "MH">>, "Pune", "Sale") }

FeatureBatches == {b \in InjSeqs(FeatureListings, MaxBatch) : Len(b) > 0}

Searches ==
    [budget : {0, 1500, 5000}, city : {"", "Denver"}, areaMin : {0, 800},
     areaMax : {0, 1200}, bedrooms : {0, 3}]

InitFeatures ==
    /\ FunctionRunIdle
    /\ listings \in FeatureBatches
    /\ pc = "idle"
    /\ ctx = "features"
    /\ values = <<>>
    /\ search \in Searches
    /\ computed = <<>>

\* recommend up to the vectors it sends: features for every listing, and
\* the query vector of the lastSearch fallback
BuildFeatures ==
    /\ pc = "idle"
    /\ ctx = "features"
    /\ pc' = "built"
    /\ computed' = [features |-> ListingVectors(listings),
                    searchVector |-> SearchVector(listings, search)]
    /\ UNCHANGED <<inputVars, ctx, srcIdx, queryLog, collectedRecsGroups,
                   groupSources, rawRecs, callLog, fallbackRaw, recommendResult,
                   path, response, attempt, lastErr, outcomes, sleeps, thrown,
                   callReturn, payload, decoded, op, body, now, status, opLog,
                   sent, httpResponse, checkResult, runs, values, search, reqs, dbLog,
                   attemptsSent>>

NextFeatures == BuildFeatures

SpecFeatures == InitFeatures /\ [][NextFeatures]_vars

FeaturesBuilt == ctx = "features" /\ pc = "built"

\* the weights in component order: price, city, area, bedrooms, bathrooms, type
WeightOrder == <<15, 12, 8, 4, 4, 2>>

\* v has 6 components and component i lies in [0, w_i]
WellFormedVector(v) ==
    /\ Len(v) = 6
    /\ \A i \in 1..6 : v[i].d > 0 /\ InWeight(v[i], WeightOrder[i])

\* C21: every vector sent to the scoring service in one recommend request,
\* each listing's vector and the query vector derived from lastSearch, has 6
\* components in the order price, city, area, bedrooms, bathrooms, type, and
\* component i lies between 0 and the weight w_i.
C21_FeatureVectorInvariant ==
    FeaturesBuilt
        => /\ \A k \in 1..Len(computed.features) :
                 WellFormedVector(computed.features[k])
           /\ WellFormedVector(computed.searchVector)

\* The part of C21 the code keeps: the vectors of the listings, which are also
\* the query vectors of the per-interaction calls.
C21_ListingVectorsWellFormed ==
    FeaturesBuilt
        => /\ Len(computed.features) = Len(listings)
           /\ \A k \in 1..Len(computed.features) :
                 WellFormedVector(computed.features[k])

\* the city recommend reads for a listing, ignoring case
CityValue(l) == LowerCase(IF l.city # "" THEN l.city ELSE RecExtractCity(l.address))

\* the distinct city values of the batch, in first-seen order
DistinctCityValues == Distinct([i \in 1..Len(listings) |-> CityValue(listings[i])])

\* C23: within one request two listings receive the same city component if
\* and only if their cities are equal ignoring case, and the component is
\* weight * (first-seen index of the city among the distinct cities of the
\* batch) / max(1, distinctCount - 1), also for a listing whose city field
\* differs from the city its address gives.
C23_BatchRelativeCityEncoding ==
    FeaturesBuilt
        => /\ \A i, j \in 1..Len(listings) :
                 FracEq(computed.features[i][2], computed.features[j][2])
                    <=> CityValue(listings[i]) = CityValue(listings[j])
           /\ \A i \in 1..Len(listings) :
                 FracEq(computed.features[i][2],
                        Frac(12 * IndexOf(DistinctCityValues, CityValue(listings[i])),
                             Max(1, Len(DistinctCityValues) - 1)))

\* The part of C23 the code keeps: batches whose listings carry no city field.
C23_AddressCitiesOnly ==
    (FeaturesBuilt /\ \A i \in 1..Len(listings) : listings[i].city = "")
        => /\ \A i, j \in 1..Len(listings) :
                 FracEq(computed.features[i][2], computed.features[j][2])
                    <=> CityValue(listings[i]) = CityValue(listings[j])
           /\ \A i \in 1..Len(listings) :
                 FracEq(computed.features[i][2],
                        Frac(12 * IndexOf(DistinctCityValues, CityValue(listings[i])),
                             Max(1, Len(DistinctCityValues) - 1)))

(***************************************************************************)
(* Exclusion of the visitor's own interactions over the whole request      *)
(* (Spec).                                                                 *)
(***************************************************************************)
\* the ids of favorites and recentlyViewed
Interacted == Range(favorites) \cup Range(recentlyViewed)

\* the ids recommend returned and the ids getRecommendations answered with
ReturnedIds == {recommendResult[i].id : i \in 1..Len(recommendResult)}
AnsweredIds == Range(response)

\* C24 as stated: on every path (fused, last-search, cold-start, recency
\* fallback) no listing returned by recommend or by getRecommendations has an
\* id among favorites and recentlyViewed.
C24_ExclusionOnEveryPath ==
    (RequestOver /\ Interacted # {})
        => (ReturnedIds \cup AnsweredIds) \cap Interacted = {}

\* C24 amended: the exclusion holds on the fused path; a fallback call's list
\* is returned as the service gave it, and the recency fallback is the newest
\* topN listings of the catalog, so both may contain interacted listings.
C24_ExclusionOnFusedPath ==
    /\ (RequestOver /\ path = "fused")
          => (ReturnedIds \cup AnsweredIds) \cap Interacted = {}
    /\ (RequestOver /\ path \in FallbackCalls)
          => /\ recommendResult = fallbackRaw
             /\ pc = "responded"
                   => response = MapToListings(listings, fallbackRaw)
    /\ (pc = "responded" /\ path = "recency")
          => response = RecencyFallback(listings, topN)

\* A request with a favorite and a viewed listing was answered from the merge
\* with a listing that is neither.
C24_Witness ==
    /\ pc = "responded"
    /\ path = "fused"
    /\ Len(favorites) > 0 /\ Len(recentlyViewed) > 0
    /\ Len(recommendResult) > 0
    /\ AnsweredIds # {}

\* The cold-start call answered with the visitor's own favorite, which was
\* returned.
C24_FallbackWitness ==
    /\ pc = "responded"
    /\ path \in FallbackCalls
    /\ ReturnedIds \cap Interacted # {}

(***************************************************************************)
(* Fuse runs: steps 3 and 4 of recommend applied to collected lists that   *)
(* may share candidate ids, as the lists of two interactions do, and may   *)
(* repeat an id, as a service response may.                                *)
(***************************************************************************)
FuseIds == {1, 2, 3}

\* the non-empty lists processSourceList can push
FuseLists == {q \in SeqsUpTo(FuseIds, MaxFuseLen) : Len(q) > 0}

InitFuse ==
    /\ listings = Catalog
    /\ favorites = <<>>
    /\ recentlyViewed = <<>>
    /\ lastSearch = FALSE
    /\ topN \in 1..MaxFuseTopN
    /\ envRetries = 0
    /\ debugMode = FALSE
    /\ client = "rec"
    /\ pc = "collected"
    /\ ctx = "fuse"
    /\ LocalsIdle
    /\ PriceIdle
    /\ attemptsSent = 0
    /\ srcIdx = 0
    /\ queryLog = <<>>
    /\ \E ids \in SeqsUpTo(FuseLists, MaxFuseGroups) :
          collectedRecsGroups =
             [g \in 1..Len(ids) |-> [k \in 1..Len(ids[g]) |-> MergeRec(ids[g][k])]]
    /\ groupSources = <<>>
    /\ rawRecs = <<>>
    /\ callLog = <<>>
    /\ fallbackRaw = <<>>
    /\ recommendResult = <<>>
    /\ path = "none"
    /\ response = <<>>
    /\ thrown = NoError
    /\ callReturn = "none"

\* Steps 3 and 4 of recommend on the collected lists
FuseCollected ==
    /\ pc = "collected"
    /\ ctx = "fuse"
    /\ pc' = "merged"
    /\ recommendResult' = FusedResult(collectedRecsGroups, topN)
    /\ path' = IF Len(RoundRobinMerge(collectedRecsGroups)) > 0
               THEN "fused" ELSE "fallthrough"
    /\ UNCHANGED <<inputVars, priceVars, attemptsSent, ctx, srcIdx, queryLog,
                   collectedRecsGroups, groupSources, rawRecs, callLog,
                   fallbackRaw, response, attempt, lastErr, outcomes, sleeps,
                   thrown, callReturn>>

NextFuse == FuseCollected

SpecFuse == InitFuse /\ [][NextFuse]_vars

\* the collected lists with every candidate marked by its list g and its
\* position p in that list
Marked(groups) ==
    [g \in 1..Len(groups) |->
        [k \in 1..Len(groups[g]) |->
            [id |-> groups[g][k].id, score |-> groups[g][k].score,
             g |-> g, p |-> k]]]

\* the merge of the marked lists: which list emitted each candidate
Emitted(groups, n) == Slice0(RoundRobinMerge(Marked(groups)), n)

Unmarked(recs) ==
    [i \in 1..Len(recs) |-> [id |-> recs[i].id, score |-> recs[i].score]]

NoIdTwice(recs) ==
    \A i, j \in 1..Len(recs) : i # j => recs[i].id # recs[j].id

\* some id occurs in two of the lists
SharesIds(groups) ==
    \E g, h \in 1..Len(groups) :
        g # h /\ Range(IdsOf(groups[g])) \cap Range(IdsOf(groups[h])) # {}

\* C25: for topN >= 1 and any collected lists, lists sharing candidate ids
\* included, the fused result contains no id twice, has at most topN entries,
\* and the candidates emitted from each source list appear in the order that
\* list had them.
C25_FusedResultShape ==
    (ctx = "fuse" /\ pc = "merged")
        => LET out == Emitted(collectedRecsGroups, topN)
           IN  /\ NoIdTwice(recommendResult)
               /\ Len(recommendResult) <= topN
               /\ Unmarked(out) = recommendResult
               /\ \A i, j \in 1..Len(out) :
                     (i < j /\ out[i].g = out[j].g) => out[i].p < out[j].p
               /\ \A i \in 1..Len(out) :
                     collectedRecsGroups[out[i].g][out[i].p].id = out[i].id

\* Lists [1,2] and [2,3] share candidate 2: the merge gave 1, 2, 3, taking 2
\* from the second list and skipping it in the first.
C25_Witness ==
    /\ ctx = "fuse" /\ pc = "merged"
    /\ Len(collectedRecsGroups) = 2
    /\ IdsOf(collectedRecsGroups[1]) = <<1, 2>>
    /\ IdsOf(collectedRecsGroups[2]) = <<2, 3>>
    /\ topN = 3
    /\ IdsOf(recommendResult) = <<1, 2, 3>>
    /\ SharesIds(collectedRecsGroups)

\* Two lists with the same candidates in opposite orders: each candidate is
\* emitted once.
C25_OppositeOrdersWitness ==
    /\ ctx = "fuse" /\ pc = "merged"
    /\ Len(collectedRecsGroups) = 2
    /\ IdsOf(collectedRecsGroups[1]) = <<1, 2>>
    /\ IdsOf(collectedRecsGroups[2]) = <<2, 1>>
    /\ topN = 3
    /\ IdsOf(recommendResult) = <<1, 2>>

(***************************************************************************)
(* Unscored runs: the recommendation request against a scoring service     *)
(* that answers every query with candidates carrying no numeric score: a   *)
(* list of bare ids, or objects whose score is missing or not a number.    *)
(***************************************************************************)
UnscoredItems ==
    {StringItem("3"), StringItem("4"),
     ObjectItem(JsString("4"), JsString("high")),
     ObjectItem(JsNumber(3), JsUndefined)}

\* arrays of one to MaxRecs such elements, all strings or all objects
UnscoredPayloads ==
    {[kind |-> "array", items |-> q] :
        q \in {r \in SeqsUpTo(UnscoredItems, MaxRecs) :
                 /\ Len(r) > 0
                 /\ \A i \in 1..Len(r) : r[i].t = r[1].t}}

\* listings.find(l => String(l._id) === rec.id): the listing id a decoded id
\* names, if any
IdNamed(v) ==
    IF v.t = "string" /\ \E i \in CatalogIds : NumStr(i) = v.s
    THEN CHOOSE i \in CatalogIds : NumStr(i) = v.s
    ELSE UnknownId

\* the decoded recommendations as processSourceList reads them
RecsOf(dec) ==
    [i \in 1..Len(dec.recs) |->
        Rec(IdNamed(dec.recs[i].id),
            IF dec.recs[i].score.t = "number" THEN dec.recs[i].score.n
            ELSE NullScore)]

UnscoredResponses(o) ==
    IF o = "ok"
    THEN {RecsOf(DecodeRecommendations(p)) : p \in UnscoredPayloads}
    ELSE {<<>>}

NextUnscored ==
    \/ GetRecommendations
    \/ \E o \in FlowOutcomes : \E recs \in UnscoredResponses(o) :
          CallAiServiceSettles(o, recs)
    \/ CallAiServiceWakes

SpecUnscored == Init /\ [][NextUnscored]_vars

\* some interaction of the request is a listing of the catalog
SomeInteractionQueried ==
    \E i \in 1..Len(callLog) : callLog[i] = "interaction"

\* C26: a candidate without a numeric score never passes the per-interaction
\* filter; when the service answers every interaction query with unscored
\* candidates nothing is collected, the fused result is empty, and recommend
\* goes on to the last-search call (lastSearch given) or the cold-start call.
C26_UnscoredNeverFused ==
    /\ collectedRecsGroups = <<>>
    /\ path # "fused"
    /\ (RequestOver /\ SomeInteractionQueried)
          => /\ callLog[Len(callLog)] = (IF lastSearch THEN "lastsearch" ELSE "coldstart")
             /\ path \in {"lastsearch", "coldstart", "recency"}
             /\ path = "lastsearch" => lastSearch
             /\ path = "coldstart" => ~lastSearch

\* The favorite's query was answered with the bare id of listing 3: it was
\* dropped, and the cold-start call's answer was returned.
C26_Witness ==
    /\ pc = "responded"
    /\ favorites = <<1>>
    /\ recentlyViewed = <<>>
    /\ ~lastSearch
    /\ callLog = <<"interaction", "coldstart">>
    /\ path = "coldstart"
    /\ Len(recommendResult) > 0
    /\ recommendResult[1].score = NullScore

(***************************************************************************)
(* Failure isolation in the collection (SpecCollect).                      *)
(***************************************************************************)
IsPrefix(a, b) == Len(a) <= Len(b) /\ SubSeq(b, 1, Len(a)) = a

\* recommend has not failed, no call is made for an id without a listing,
\* and once the request is answered every interaction with a listing has
\* been queried
IsolationState ==
    /\ RecommendRejected
          => (Len(callLog) > 0 /\ callLog[Len(callLog)] \in FallbackCalls)
    /\ \A i \in 1..Len(queryLog) : HasFeature(listings, queryLog[i].src)
    /\ Cardinality(CallsOfKind({"interaction"})) = Len(queryLog)
    /\ Len(groupSources) = Len(collectedRecsGroups)
    /\ (RequestOver /\ path \notin {"empty_catalog", "no_signal"})
          => [i \in 1..Len(queryLog) |-> queryLog[i].src]
                = QueriedUpTo(Len(favorites) + Len(recentlyViewed))

\* the call of the interaction at srcIdx has run out of attempts
InteractionCallExhausted ==
    /\ ctx = "interaction"
    /\ pc = "sleep"
    /\ ~RecLoopContinues(attempt, envRetries)

\* the step that ends an interaction's call, by an answer or by a failure:
\* the lists collected so far are kept, recommend has not failed, and the
\* next interaction with a listing is queried or, after the last one, the
\* merge is returned or a fallback call is started
IsolationStep ==
    LET srcs == Sources(favorites, recentlyViewed)
    IN  /\ InteractionCallExhausted
           => (srcIdx' # srcIdx /\ collectedRecsGroups' = collectedRecsGroups)
        /\ (ctx = "interaction" /\ srcIdx' # srcIdx)
           => /\ thrown'.type \notin {"raw", "exhausted"}
              /\ IsPrefix(collectedRecsGroups, collectedRecsGroups')
              /\ srcIdx' = NextSource(listings, srcs, srcIdx + 1)
              /\ srcIdx' <= Len(srcs)
                    => /\ pc' = "request" /\ ctx' = "interaction"
                       /\ queryLog'[Len(queryLog')] = [src |-> srcs[srcIdx'], done |-> FALSE]
              /\ srcIdx' > Len(srcs)
                    => \/ /\ pc' \in {"responded", "failed"} /\ path' = "fused"
                          /\ Len(collectedRecsGroups') > 0
                          /\ recommendResult' = FusedResult(collectedRecsGroups', topN)
                       \/ /\ pc' = "request" /\ ctx' \in FallbackCalls
                          /\ collectedRecsGroups' = <<>>

\* C27: a scoring call that fails for one interaction, after its retries or
\* at once, does not make recommend fail and does not stop the remaining
\* interactions from being queried; the lists already collected are kept and
\* merged; recommend fails only when a fallback call fails; interaction ids
\* without a listing in the catalog are skipped without a scoring call.
C27_FailureIsolation == []IsolationState /\ [][IsolationStep]_vars

\* Both favorites are listing 1, for which an answered call always leaves a
\* list: one of the two calls failed, the other's list was kept and returned.
C27_Witness ==
    /\ pc = "responded"
    /\ favorites = <<1, 1>>
    /\ recentlyViewed = <<UnknownId>>
    /\ Len(queryLog) = 2
    /\ Len(collectedRecsGroups) = 1
    /\ path = "fused"
    /\ recommendResult = <<Rec(4, 8500)>>

\* The first favorite's call failed after its retries (nothing was collected
\* from it) and the second favorite is being queried.
C27_NextQueriedWitness ==
    /\ favorites = <<1, 1>>
    /\ queryLog = <<[src |-> 1, done |-> TRUE], [src |-> 1, done |-> FALSE]>>
    /\ collectedRecsGroups = <<>>
    /\ pc = "request"
    /\ thrown = NoError

(***************************************************************************)
(* What sets training off (SpecPrice).                                     *)
(***************************************************************************)
\* C28: predictPrice and checkAndRetainIfNeeded invoke trainModel only on a
\* status that a /model-status request actually returned; when the status
\* request failed, the service being unreachable, trainModel is not invoked:
\* no catalog read for training and no request to /train-price-model.
C28_TrainingOnlyOnGenuineReport ==
    /\ (op # "train" /\ TrainInvocations > 0) => status.source = "service"
    /\ status.source = "default"
          => (TrainInvocations = 0 /\ TrainRequests = {})

\* The part of C28 the code keeps: training through the untrained branch
\* follows a status that says untrained, reported or defaulted.
C28_TrainingFollowsUntrainedStatus ==
    (op = "predict" /\ TrainInvocations > 0)
        => (status.source \in {"service", "default"} /\ ~status.is_trained)

(***************************************************************************)
(* Concurrent runs: several price-side requests handled by the one event   *)
(* loop.  Each request is a record of reqs: its kind, the await it is      *)
(* suspended at (pc), the status its checkModelStatus returned (seen), the *)
(* branch through which it invoked trainModel and the number of rows it    *)
(* submitted.  A step runs one request from the await that settles to its  *)
(* next await.  A fetchWithRetry call, retries included, is one await.     *)
(* deleteListing and updateListing requests carry the id they name         *)
(* (target), whether req.user.id is the listing's userRef (mine), the body *)
(* (patch) and the HTTP status they were answered with (code).             *)
(***************************************************************************)
RequestKinds == {"create", "predict", "train", "delete", "update"}

ConcurrentDb == Db(9, 0)

\* the collections a concurrent run starts from: the least that can be
\* trained on, and one listing short of a retrain
ConcurrentDbs == {Db(MinTrainingListings, 0), ConcurrentDb}

\* a model trained when the collection was one listing short of a retrain
TrainedEarlier ==
    [source |-> "service", is_trained |-> TRUE, has_count |-> TRUE,
     training_count |-> CurrentCount(ConcurrentDb) - RetrainThreshold + 1]

Untrained ==
    [source |-> "service", is_trained |-> FALSE, has_count |-> TRUE,
     training_count |-> 0]

NoPatch == [bedrooms |-> -1]

NewRequest(kind, at) ==
    [kind |-> kind, pc |-> at, seen |-> NoStatus, branch |-> "none", rows |-> 0,
     counted |-> -1, target |-> 0, mine |-> FALSE, patch |-> NoPatch, code |-> 0]

InitConcurrent ==
    /\ listings \in ConcurrentDbs
    /\ favorites = <<>>
    /\ recentlyViewed = <<>>
    /\ lastSearch = FALSE
    /\ topN = DefaultTopN
    /\ envRetries = 0
    /\ debugMode = FALSE
    /\ client = "price"
    /\ pc = "serving"
    /\ ctx = "concurrent"
    /\ LocalsIdle
    /\ srcIdx = 0
    /\ queryLog = <<>>
    /\ collectedRecsGroups = <<>>
    /\ groupSources = <<>>
    /\ rawRecs = <<>>
    /\ callLog = <<>>
    /\ fallbackRaw = <<>>
    /\ recommendResult = <<>>
    /\ path = "none"
    /\ response = <<>>
    /\ thrown = NoError
    /\ callReturn = "none"
    /\ DecodeIdle
    /\ attemptsSent = 0
    /\ op = "none"
    /\ body = NoBody
    /\ now = 0
    /\ status \in {Untrained, TrainedEarlier}
    /\ opLog = <<>>
    /\ sent = <<>>
    /\ httpResponse = NoResponse
    /\ checkResult = NoCheck
    /\ runs = <<>>
    /\ values = <<>>
    /\ search = NoSearch
    /\ computed = <<>>
    /\ reqs = <<>>
    /\ dbLog = <<>>

\* request i moves on; the collection and the service's model become ls and m
ConcurrentSet(rs, ls, m) ==
    /\ reqs' = rs
    /\ listings' = ls
    /\ status' = m
    /\ UNCHANGED <<favorites, recentlyViewed, lastSearch, topN, envRetries,
                   debugMode, client, pc, ctx, srcIdx, collectedRecsGroups, groupSources,
                   rawRecs, callLog, fallbackRaw, recommendResult, path,
                   response, attempt, lastErr, outcomes, sleeps, thrown,
                   callReturn, queryLog, payload, decoded, op, body, now,
                   opLog, sent, httpResponse, checkResult, runs, values,
                   search, computed, dbLog, attemptsSent>>

Suspended(i, at) == i \in 1..Len(reqs) /\ reqs[i].pc = at

\* the _id Listing.create gives a document: one no listing has or had
NewId(ls, rs) ==
    1 + MaxOf(<<0>> \o [i \in 1..Len(ls) |-> ls[i].id]
                   \o [i \in 1..Len(rs) |-> rs[i].target])

\* createListing: Listing.create has resolved, checkAndRetainIfNeeded is
\* called without await and runs to the request of checkModelStatus
ArriveCreate ==
    /\ ctx = "concurrent"
    /\ Len(reqs) < MaxRequests
    /\ ConcurrentSet(Append(reqs, [NewRequest("create", "status")
                                      EXCEPT !.target = NewId(listings, reqs),
                                             !.code = 201]),
                     StoreListing(listings, GoodListing(NewId(listings, reqs))),
                     status)

\* deleteListing: the handler awaits Listing.findById(req.params.id)
ArriveDelete(id, mine) ==
    /\ ctx = "concurrent"
    /\ Len(reqs) < MaxRequests
    /\ ConcurrentSet(Append(reqs, [NewRequest("delete", "findById")
                                      EXCEPT !.target = id, !.mine = mine]),
                     listings, status)

\* updateListing: the handler awaits Listing.findById(req.params.id)
ArriveUpdate(id, mine, patch) ==
    /\ ctx = "concurrent"
    /\ Len(reqs) < MaxRequests
    /\ ConcurrentSet(Append(reqs, [NewRequest("update", "findById")
                                      EXCEPT !.target = id, !.mine = mine,
                                             !.patch = patch]),
                     listings, status)

\* Listing.findById settles in deleteListing or updateListing: 404 when the
\* listing is not there, 401 when it is another user's, otherwise the handler
\* awaits findByIdAndDelete or findByIdAndUpdate
FindByIdSettles(i) ==
    /\ Suspended(i, "findById")
    /\ ConcurrentSet(IF FindListing(listings, reqs[i].target) = 0
                     THEN [reqs EXCEPT ![i].pc = "done", ![i].code = 404]
                     ELSE IF ~reqs[i].mine
                     THEN [reqs EXCEPT ![i].pc = "done", ![i].code = 401]
                     ELSE [reqs EXCEPT ![i].pc = "write"],
                     listings, status)

\* Listing.findByIdAndDelete or Listing.findByIdAndUpdate settles; either
\* leaves the collection as it is when the listing has gone meanwhile, and
\* the handler answers 200
WriteSettles(i) ==
    /\ Suspended(i, "write")
    /\ ConcurrentSet([reqs EXCEPT ![i].pc = "done", ![i].code = 200],
                     IF reqs[i].kind = "delete"
                     THEN RemoveListing(listings, reqs[i].target)
                     ELSE PatchListing(listings, reqs[i].target, reqs[i].patch),
                     status)

\* predictPrice: the first request to /predict-price is sent
ArrivePredict ==
    /\ ctx = "concurrent"
    /\ Len(reqs) < MaxRequests
    /\ ConcurrentSet(Append(reqs, NewRequest("predict", "predict1")),
                     listings, status)

\* the train endpoint: trainModel is called and awaits Listing.find
ArriveTrain ==
    /\ ctx = "concurrent"
    /\ Len(reqs) < MaxRequests
    /\ ConcurrentSet(Append(reqs, [NewRequest("train", "find")
                                      EXCEPT !.branch = "explicit"]),
                     listings, status)

\* a request to /predict-price settles
PredictSettles(i, ok) ==
    /\ \/ Suspended(i, "predict1")
       \/ Suspended(i, "predict2")
    /\ ConcurrentSet([reqs EXCEPT ![i].pc =
                         IF ~ok /\ reqs[i].pc = "predict1" THEN "status" ELSE "done"],
                     listings, status)

\* checkModelStatus settles: the service's report, or { is_trained: false }
\* when the request failed
StatusSettles(i, ok) ==
    /\ Suspended(i, "status")
    /\ LET seen == IF ok THEN status ELSE DefaultStatus
           at   == IF ModelUntrained(seen) THEN "find"
                   ELSE IF reqs[i].kind = "predict" THEN "done"
                   ELSE "count"
       IN  ConcurrentSet([reqs EXCEPT ![i].seen = seen, ![i].pc = at,
                                      ![i].branch = IF at = "find" THEN "untrained"
                                                    ELSE @],
                         listings, status)

\* Listing.countDocuments settles in checkAndRetainIfNeeded
CountSettles(i) ==
    /\ Suspended(i, "count")
    /\ LET cur == CurrentCount(listings)
           due == RetrainDelta(cur, reqs[i].seen) >= RetrainThreshold
       IN  ConcurrentSet([reqs EXCEPT ![i].pc = IF due THEN "find" ELSE "done",
                                      ![i].counted = cur,
                                      ![i].branch = IF due THEN "retrain" ELSE @],
                         listings, status)

\* Listing.find settles in trainModel: too few listings throws, otherwise the
\* request to /train-price-model is sent
FindSettles(i) ==
    /\ Suspended(i, "find")
    /\ LET n == CurrentCount(listings)
       IN  ConcurrentSet(IF n < MinTrainingListings
                         THEN [reqs EXCEPT ![i].pc = "done"]
                         ELSE [reqs EXCEPT ![i].pc = "train", ![i].rows = n],
                         listings, status)

\* the request to /train-price-model settles; on success the service holds a
\* model trained on the rows it was sent
TrainSettles(i, ok) ==
    /\ Suspended(i, "train")
    /\ ConcurrentSet([reqs EXCEPT ![i].pc =
                         IF ok /\ reqs[i].kind = "predict" THEN "predict2" ELSE "done"],
                     listings,
                     IF ok
                     THEN [source |-> "service", is_trained |-> TRUE,
                           has_count |-> TRUE, training_count |-> reqs[i].rows]
                     ELSE status)

NextConcurrent ==
    \/ ArriveCreate
    \/ ArrivePredict
    \/ ArriveTrain
    \/ \E id \in WriteTargets("delete", listings) : \E mine \in BOOLEAN :
          ArriveDelete(id, mine)
    \/ \E id \in WriteTargets("update", listings) : \E mine \in BOOLEAN :
          \E patch \in UpdateBodies : ArriveUpdate(id, mine, patch)
    \/ \E i \in 1..MaxRequests : FindByIdSettles(i)
    \/ \E i \in 1..MaxRequests : WriteSettles(i)
    \/ \E i \in 1..MaxRequests : \E ok \in BOOLEAN : PredictSettles(i, ok)
    \/ \E i \in 1..MaxRequests : \E ok \in BOOLEAN : StatusSettles(i, ok)
    \/ \E i \in 1..MaxRequests : CountSettles(i)
    \/ \E i \in 1..MaxRequests : FindSettles(i)
    \/ \E i \in 1..MaxRequests : \E ok \in BOOLEAN : TrainSettles(i, ok)

SpecConcurrent == InitConcurrent /\ [][NextConcurrent]_vars

\* the requests whose request to /train-price-model is outstanding
TrainingOutstanding == {i \in 1..Len(reqs) : reqs[i].pc = "train"}

\* the requests that submitted a training because the count had grown by
\* the threshold
RetrainSubmissions ==
    {i \in 1..Len(reqs) : reqs[i].branch = "retrain" /\ reqs[i].rows > 0}

\* the collection has grown by the threshold since the model was trained
ThresholdCrossed ==
    CurrentCount(listings) - TrainedEarlier.training_count >= RetrainThreshold

\* C29: over any interleaving of concurrent requests at most one request to
\* the training endpoint is outstanding at a time, and one crossing of the
\* retrain threshold causes at most one training submission.
C29_SingleTrainingInFlight ==
    /\ Cardinality(TrainingOutstanding) <= 1
    /\ Cardinality(RetrainSubmissions) <= (IF ThresholdCrossed THEN 1 ELSE 0)

\* The part of C29 the code keeps: one request has at most one training
\* request outstanding, and a check retrains only past the threshold.
C29_OneTrainingPerRequest ==
    /\ \A i \in RetrainSubmissions :
          /\ reqs[i].seen.is_trained
          /\ RetrainDelta(reqs[i].counted, reqs[i].seen) >= RetrainThreshold
    /\ \A i \in TrainingOutstanding : reqs[i].rows >= MinTrainingListings

(***************************************************************************)
(* Load runs: the recommendation request with its HTTP attempts counted,   *)
(* under the scheduling the code relies on: every request in flight        *)
(* settles (the abort timer of callAiService cancels one that hangs),      *)
(* every backoff timer fires, and a handler that can run is run.           *)
(***************************************************************************)
InitLive ==
    /\ listings = Catalog
    /\ favorites \in SeqsUpTo(InteractionIds, MaxFav)
    /\ recentlyViewed \in SeqsUpTo(InteractionIds, MaxViewed)
    /\ lastSearch \in BOOLEAN
    /\ topN = DefaultTopN
    /\ envRetries \in {0, 1}
    /\ debugMode \in BOOLEAN
    /\ client = "rec"
    /\ pc = "idle"
    /\ ctx = "none"
    /\ LocalsIdle
    /\ NothingYet

NextLive ==
    \/ GetRecommendations
    \/ \E o \in CollectOutcomes : \E recs \in CollectResponses(o) :
          CallAiServiceSettlesCounted(o, recs)
    \/ CallAiServiceWakes

SpecLive == InitLive /\ [][NextLive]_vars /\ WF_vars(NextLive)

\* (|favorites| + |recentlyViewed| + 1) * (AI_REQUEST_RETRIES + 1)
AttemptBudget ==
    (Len(favorites) + Len(recentlyViewed) + 1) * (RecRetries(envRetries) + 1)

\* C30: every recommend call eventually returns or fails (the request is
\* answered, the merge having ended), and the HTTP attempts it sends to the
\* scoring service never number more than
\* (|favorites| + |recentlyViewed| + 1) * (AI_REQUEST_RETRIES + 1).
C30_TerminationAndBoundedLoad ==
    /\ <>RequestOver
    /\ [](attemptsSent <= AttemptBudget)
    /\ [](Len(outcomes) <= RecRetries(envRetries) + 1)

\* One favorite, one viewed listing and the fallback call, each timing out
\* on all three attempts: nine attempts, the whole budget, and the request
\* was answered.
C30_Witness ==
    /\ pc = "responded"
    /\ Len(favorites) = 1 /\ Len(recentlyViewed) = 1
    /\ envRetries = 0
    /\ callLog = <<"interaction", "interaction", "coldstart">>
    /\ attemptsSent = 9
    /\ attemptsSent = AttemptBudget
    /\ RecommendFailed

====
